---- MODULE Spec2Model ----
(***************************************************************************)
(* Model of the instagram-cli chat session: the message scheduler          *)
(* (instagram/api/scheduler.py, chat.py) and the chat interface's          *)
(* optimistic send pipeline (chat_ui/interface/chat_interface.py).         *)
(*                                                                         *)
(* Time is the local wall clock in whole seconds ("%Y-%m-%d %H:%M:%S" has  *)
(* second precision); a send_time string is modelled by the integer second *)
(* it parses to, and BadTime stands for a string strptime rejects.         *)
(***************************************************************************)
EXTENDS Integers, Sequences, FiniteSets, TLC

(* ------------------------------ bounds --------------------------------- *)
MaxTime == 2
MaxFileLen == 1
MaxUid == 2
MaxSends == 2
MaxCliLen == 3
MaxSubmits == 2
MaxIncoming == 1
Height == 3
messages_per_fetch == 20
MaxInstances == 2
MaxInstanceTasks == 2
MaxBuffer == 6
VisibleWidth == 2
max_height == 5
BadTime == 0 - 1
Messages == {"hi"}
ThreadIds == {"t1"}

(* ------------------------- scheduler state ----------------------------- *)
VARIABLES
    file,          \* tasks.json: the persisted list of task records
    tasks,         \* MessageScheduler.tasks
    queue,         \* MessageScheduler.scheduler (sched queue): entries [time, task]
    now,           \* wall clock
    running,       \* MessageScheduler.running
    runner,        \* position of the _run_scheduler thread
    cur,           \* the event the runner popped and is executing
    proc,          \* position of the main thread in init_chat
    overdue,       \* handle_overdue_tasks: the overdue list
    current_task,  \* handle_overdue_tasks: loop index (0-based)
    sent,          \* observation: invocations of direct_answer by the runner, per record
    cancelled,     \* observation: records removed by cancel_latest_task
    op,            \* observation: the last call, its input and its return value
    observe,       \* whether the specification records calls in op
    nextUid        \* observation: identity given to the next created record

schedVars == <<file, tasks, queue, now, running, runner, cur, proc, overdue,
               current_task, sent, cancelled, op, observe, nextUid>>

(* --------------------------- chat state -------------------------------- *)
VARIABLES
    server,          \* the provider's thread: every delivered message, oldest first
    thread,          \* DirectChat.thread.messages, as last fetched
    messages,        \* ChatWindow.messages
    pending_msgs,    \* ChatInterface.pending_msgs, in insertion order
    scroll_offset,   \* ChatWindow.scroll_offset
    refresh_enabled, \* ChatInterface.refresh_enabled
    refresh_lock,    \* ChatInterface.refresh_lock: the thread that holds it
    refresher,       \* the _refresh_chat thread: position and new_messages
    senders,         \* the _send_in_background threads, by number of the send
    nextTmp,         \* number of the next send (its uuid4)
    session          \* the input loop: running, or ended by an exception

chatVars == <<server, thread, messages, pending_msgs, scroll_offset,
              refresh_enabled, refresh_lock, refresher, senders, nextTmp, session>>

(* ------------------------ scheduler singleton -------------------------- *)
VARIABLES
    instance,      \* MessageScheduler._instance
    acquired,      \* the last acquisition: its arguments and what it gave
    instances      \* number of instances created so far

singletonVars == <<instance, acquired, instances>>

(* ------------------------- task file on disk --------------------------- *)
VARIABLES
    disk,          \* tasks.json as found on disk: missing, unparsable, or a list
    reading        \* the last operation that read it, and what it gave

storeVars == <<disk, reading>>

(* ----------------------------- input box ------------------------------ *)
VARIABLES
    buffer,        \* InputBox.buffer: the characters typed
    cursor_pos,    \* InputBox.cursor_pos
    box_scroll,    \* InputBox.scroll_offset
    box,           \* the input loop: "ok", or the exception that ended it
    returned       \* what the last handle_key returned to handle_input

editorVars == <<buffer, cursor_pos, box_scroll, box, returned>>

(* ------------------- chat window: mode and selection ------------------- *)
VARIABLES
    mode,          \* ChatInterface.mode, mirrored in ChatWindow.mode
    selection      \* ChatWindow.selection (0-based index into messages)

windowVars == <<mode, selection>>

(* ----------------------- input loop and commands ----------------------- *)
VARIABLES
    result,                  \* handle_input: the text the input box returned
    route,                   \* where handle_input sent it, and the text it passed on
    parsed,                  \* what parse_command gave for it
    command_result,          \* what cmd_registry.execute gave
    signal,                  \* what handle_input returned, or the exception it raised
    awaiting,                \* what handle_input reads next: a selection or a text
    status,                  \* the last message the status bar or the window showed
    skip_message_selection,  \* ChatInterface.skip_message_selection
    selected_message_id,     \* ChatWindow.selected_message_id
    user_id,                 \* the provider's author of each message id
    full_name,               \* users_cache: the other participant's display name
    deleted,                 \* observation: ids handed to direct_message_delete
    reply_to_id              \* observation: reply_to_id the last submission was sent with

inputVars == <<result, route, parsed, command_result, signal, awaiting, status,
               skip_message_selection, selected_message_id, user_id, full_name,
               deleted, reply_to_id>>

(* ---------------------------- message layout --------------------------- *)
VARIABLES
    width,         \* ChatWindow.width
    layout,        \* Config: chat.layout
    colors,        \* Config: chat.colors
    hashseed,      \* the process's string hash seed (PYTHONHASHSEED)
    window_scroll, \* ChatWindow.scroll_offset of the window being laid out
    lines_buffer   \* ChatWindow.messages_lines

layoutVars == <<width, layout, colors, hashseed, window_scroll, lines_buffer>>

\* The components beside the scheduler and the chat interface
extraVars == <<singletonVars, storeVars, editorVars, windowVars, inputVars, layoutVars>>

vars == <<schedVars, chatVars, extraVars>>

\* What lies outside the scheduler, and outside the chat interface
offSched == <<chatVars, extraVars>>
offChat == <<schedVars, extraVars>>
coreVars == <<schedVars, chatVars>>
uiVars == <<windowVars, inputVars, layoutVars>>
backVars == <<schedVars, singletonVars, storeVars, editorVars>>

\* No scheduler instance has been asked for
SingletonIdle ==
    /\ instance = [id |-> 0]
    /\ acquired = [res |-> "none"]
    /\ instances = 0

\* No task file is looked at
StoreIdle ==
    /\ disk = [kind |-> "missing", tasks |-> <<>>]
    /\ reading = [op |-> "none"]

\* InputBox.__init__: nothing typed
EditorIdle ==
    /\ buffer = <<>>
    /\ cursor_pos = 0
    /\ box_scroll = 0
    /\ box = "ok"
    /\ returned = [kind |-> "None"]

\* ChatWindow.__init__ and ChatInterface.__init__
WindowIdle ==
    /\ mode = "CHAT"
    /\ selection = 0

\* reply_to_id when the submission sent no text; in SentWith 0 stands for None
NotSent == [kind |-> "none"]
SentWith(id) == [kind |-> "sent", id |-> id]

\* Nothing has been submitted
InputRestIdle ==
    /\ result = <<>>
    /\ route = [to |-> "none"]
    /\ parsed = [kind |-> "none"]
    /\ command_result = [kind |-> "none"]
    /\ signal = "none"
    /\ awaiting = "text"
    /\ status = "none"
    /\ skip_message_selection = FALSE
    /\ selected_message_id = 0
    /\ deleted = <<>>
    /\ reply_to_id = NotSent

InputIdle ==
    /\ InputRestIdle
    /\ user_id = <<>>
    /\ full_name = ""

\* Nothing is laid out
LayoutIdle ==
    /\ width = 0
    /\ layout = "default"
    /\ colors = FALSE
    /\ hashseed = <<>>
    /\ window_scroll = 0
    /\ lines_buffer = <<>>

ExtraIdle ==
    SingletonIdle /\ StoreIdle /\ EditorIdle /\ WindowIdle /\ InputIdle /\ LayoutIdle

NoTask == [thread_id |-> "", send_time |-> 0, message |-> "", uid |-> 0]

\* Steps that are no call of the scheduler's interface leave no call record
NoOp == [name |-> "", arg |-> 0, res |-> ""]

Op(name, arg, res) ==
    IF observe THEN [name |-> name, arg |-> arg, res |-> res] ELSE NoOp

\* A task record as add_task builds it; uid is the identity of the record
\* (Python compares the dicts by value, which SameTask models).
Task(th, t, m, u) == [thread_id |-> th, send_time |-> t, message |-> m, uid |-> u]

SameTask(a, b) ==
    /\ a.thread_id = b.thread_id
    /\ a.send_time = b.send_time
    /\ a.message = b.message

RemoveAt(s, i) == SubSeq(s, 1, i - 1) \o SubSeq(s, i + 1, Len(s))

\* list.__contains__ / list.index with dict equality
Contains(ts, task) == \E i \in 1..Len(ts) : SameTask(ts[i], task)

FirstIndex(ts, task) ==
    CHOOSE i \in 1..Len(ts) :
        /\ SameTask(ts[i], task)
        /\ \A j \in 1..(i - 1) : ~SameTask(ts[j], task)

\* remove_task: the list after `if task in self.tasks: self.tasks.remove(task)`
remove_task(ts, task) ==
    IF Contains(ts, task) THEN RemoveAt(ts, FirstIndex(ts, task)) ELSE ts

\* save_tasks writes self.tasks, and runs only inside `if task in self.tasks`
save_tasks(ts) == ts

remove_task_file(ts, f, task) ==
    IF Contains(ts, task) THEN save_tasks(remove_task(ts, task)) ELSE f

\* load_tasks: the JSON array of the file
load_tasks(f) == f

\* The delay schedule_tasks_on_startup and add_task compute
delay(send_time, t) == send_time - t

\* scheduler.enter(delay, 1, self.execute_task, argument=(task,))
enter(q, t, d, task) == Append(q, [time |-> t + d, task |-> task])

\* schedule_tasks_on_startup: the loop that arms the tasks with delay > 0
RECURSIVE ArmFuture(_, _, _)
ArmFuture(q, ts, t) ==
    IF ts = <<>> THEN q
    ELSE ArmFuture(IF delay(ts[1].send_time, t) > 0
                     THEN enter(q, t, delay(ts[1].send_time, t), ts[1])
                     ELSE q,
                   Tail(ts), t)

\* ... and collects the others as overdue
RECURSIVE Overdue(_, _)
Overdue(ts, t) ==
    IF ts = <<>> THEN <<>>
    ELSE (IF delay(ts[1].send_time, t) > 0 THEN <<>> ELSE <<ts[1]>>)
            \o Overdue(Tail(ts), t)

\* sched.scheduler.run(blocking=False): the head of the heap, ordered by
\* (time, sequence): earliest time, first entered among equals
HeapHead(q) ==
    CHOOSE i \in 1..Len(q) :
        /\ \A j \in 1..Len(q) : q[i].time <= q[j].time
        /\ \A j \in 1..(i - 1) : q[j].time > q[i].time

(* --------------------------- initial state ----------------------------- *)
\* Persisted files: what earlier sessions may have left behind
RECURSIVE FilesOfLen(_)
FilesOfLen(n) ==
    IF n = 0 THEN {<<>>}
    ELSE {Append(f, Task(th, t, m, n)) :
            f \in FilesOfLen(n - 1), th \in ThreadIds, t \in 1..MaxTime, m \in Messages}

InitFiles == UNION {FilesOfLen(n) : n \in 0..MaxFileLen}

\* Files the schedule commands of the CLI may find
CliMessages == {"hi", "bye"}

RECURSIVE CliFilesOfLen(_)
CliFilesOfLen(n) ==
    IF n = 0 THEN {<<>>}
    ELSE {Append(f, Task(th, t, m, n)) :
            f \in CliFilesOfLen(n - 1), th \in ThreadIds, t \in 1..MaxTime,
            m \in CliMessages}

CliFiles == UNION {CliFilesOfLen(n) : n \in 0..MaxCliLen}

SchedInit ==
    /\ file \in InitFiles
    /\ tasks = <<>>
    /\ queue = <<>>
    /\ now = 0
    /\ running = FALSE
    /\ runner = "none"
    /\ cur = NoTask
    /\ proc = "down"
    /\ overdue = <<>>
    /\ current_task = 0
    /\ sent = [u \in 1..MaxUid |-> 0]
    /\ cancelled = {}
    /\ op = NoOp
    /\ observe = FALSE
    /\ nextUid = Len(file) + 1

(* ------------------------------ actions -------------------------------- *)
\* The wall clock advances
Tick ==
    /\ now < MaxTime
    /\ now' = now + 1
    /\ op' = NoOp
    /\ UNCHANGED <<file, tasks, queue, running, runner, cur, proc, overdue,
                   current_task, sent, cancelled, nextUid, observe>>

\* start_scheduler: the runner thread after the call (self.running is then True)
start_scheduler(r, rn) == IF ~r THEN "idle" ELSE rn

\* init_chat: MessageScheduler(client, path): __new__ and __init__, which
\* calls schedule_tasks_on_startup() without a screen when tasks were loaded
Construct ==
    /\ proc = "down"
    /\ LET ts == load_tasks(file) IN
        /\ tasks' = ts
        /\ IF ts # <<>>
             THEN /\ queue' = ArmFuture(<<>>, ts, now)
                  /\ running' = TRUE
                  /\ runner' = start_scheduler(FALSE, "none")
             ELSE /\ queue' = <<>>
                  /\ running' = FALSE
                  /\ runner' = "none"
    /\ proc' = "constructed"
    /\ op' = NoOp
    /\ UNCHANGED <<file, now, cur, overdue, current_task, sent, cancelled, nextUid, observe>>

\* handle_overdue_tasks leaves its loop: schedule_tasks_on_startup goes on
\* to start_scheduler
LeaveOverdue ==
    /\ proc' = "up"
    /\ running' = TRUE
    /\ runner' = start_scheduler(running, runner)

\* handle_overdue_tasks: current_task += 1 and the loop test
NextOverdue ==
    /\ current_task' = current_task + 1
    /\ IF current_task + 1 < Len(overdue)
         THEN /\ proc' = "overdue"
              /\ UNCHANGED <<running, runner>>
         ELSE LeaveOverdue

\* init_chat: scheduler.schedule_tasks_on_startup(screen)
schedule_tasks_on_startup ==
    /\ proc = "constructed"
    /\ queue' = ArmFuture(queue, tasks, now)
    /\ overdue' = Overdue(tasks, now)
    /\ current_task' = 0
    /\ IF overdue' # <<>>
         THEN /\ proc' = "overdue"
              /\ UNCHANGED <<running, runner>>
         ELSE LeaveOverdue
    /\ op' = NoOp
    /\ UNCHANGED <<file, tasks, now, cur, sent, cancelled, nextUid, observe>>

\* The client's direct_answer: it returns or raises
SendOutcomes == {"ok", "raised"}

\* One more invocation of direct_answer for record u (counted up to MaxSends)
count_send(cnt, u) ==
    [cnt EXCEPT ![u] = IF @ < MaxSends THEN @ + 1 ELSE @]

\* handle_overdue_tasks, key S: execute_task(task), first the send
OverdueSend ==
    /\ proc = "overdue"
    /\ current_task < Len(overdue)
    /\ \E out \in SendOutcomes :
        /\ op' = NoOp
        /\ IF out = "ok"
             THEN /\ proc' = "overdue_rm"
                  /\ UNCHANGED <<current_task, running, runner>>
             ELSE NextOverdue
    /\ UNCHANGED <<file, tasks, queue, now, cur, overdue, sent, cancelled, nextUid,
                   observe>>

\* handle_overdue_tasks, key S: execute_task(task), then remove_task
OverdueRemove ==
    /\ proc = "overdue_rm"
    /\ LET task == overdue[current_task + 1] IN
        /\ tasks' = remove_task(tasks, task)
        /\ file' = remove_task_file(tasks, file, task)
        /\ op' = NoOp
    /\ NextOverdue
    /\ UNCHANGED <<queue, now, cur, overdue, sent, cancelled, nextUid, observe>>

\* handle_overdue_tasks, key D: remove_task(task)
OverdueDelete ==
    /\ proc = "overdue"
    /\ current_task < Len(overdue)
    /\ LET task == overdue[current_task + 1] IN
        /\ tasks' = remove_task(tasks, task)
        /\ file' = remove_task_file(tasks, file, task)
        /\ op' = NoOp
    /\ NextOverdue
    /\ UNCHANGED <<queue, now, cur, overdue, sent, cancelled, nextUid, observe>>

\* handle_overdue_tasks, key Q: break
OverdueQuit ==
    /\ proc = "overdue"
    /\ current_task < Len(overdue)
    /\ LeaveOverdue
    /\ op' = NoOp
    /\ UNCHANGED <<file, tasks, queue, now, cur, overdue, current_task, sent,
                   cancelled, nextUid, observe>>

\* add_task with the past test written `delay < 0`
add_task_lt(th, t, m) ==
    /\ proc = "up"
    /\ IF t = BadTime
         THEN /\ op' = Op("add_task", t, "Error: Invalid datetime format")
              /\ UNCHANGED <<file, tasks, queue, running, runner, nextUid>>
         ELSE IF delay(t, now) < 0
         THEN /\ op' = Op("add_task", t,
                          "Error: Cannot schedule a message in the past")
              /\ UNCHANGED <<file, tasks, queue, running, runner, nextUid>>
         ELSE /\ nextUid <= MaxUid
              /\ LET task == Task(th, t, m, nextUid) IN
                  /\ tasks' = Append(tasks, task)
                  /\ file' = save_tasks(tasks')
                  /\ queue' = enter(queue, now, delay(t, now), task)
                  /\ op' = Op("add_task", t, "Scheduled message")
              /\ nextUid' = nextUid + 1
              /\ running' = TRUE
              /\ runner' = start_scheduler(running, runner)
    /\ UNCHANGED <<now, cur, proc, overdue, current_task, sent, cancelled, observe>>

\* add_task(thread_id, send_time, message) from the schedule and delay commands
add_task(th, t, m) ==
    /\ proc = "up"
    /\ IF t = BadTime
         THEN \* strptime raises ValueError
              /\ op' = Op("add_task", t, "Error: Invalid datetime format")
              /\ UNCHANGED <<file, tasks, queue, running, runner, nextUid>>
         ELSE IF delay(t, now) <= 0
         THEN /\ op' = Op("add_task", t,
                          "Error: Cannot schedule a message in the past")
              /\ UNCHANGED <<file, tasks, queue, running, runner, nextUid>>
         ELSE /\ nextUid <= MaxUid
              /\ LET task == Task(th, t, m, nextUid) IN
                  /\ tasks' = Append(tasks, task)
                  /\ file' = save_tasks(tasks')
                  /\ queue' = enter(queue, now, delay(t, now), task)
                  /\ op' = Op("add_task", t, "Scheduled message")
              /\ nextUid' = nextUid + 1
              /\ running' = TRUE
              /\ runner' = start_scheduler(running, runner)
    /\ UNCHANGED <<now, cur, proc, overdue, current_task, sent, cancelled, observe>>

\* cancel_latest_task, from the cancel command
cancel_latest_task ==
    /\ proc = "up"
    /\ IF tasks # <<>>
         THEN LET task == tasks[Len(tasks)] IN
              /\ tasks' = remove_task(tasks, task)
              /\ file' = remove_task_file(tasks, file, task)
              /\ cancelled' = cancelled \cup {tasks[FirstIndex(tasks, task)].uid}
              /\ op' = Op("cancel_latest_task", 0, "Cancelled task")
         ELSE /\ op' = Op("cancel_latest_task", 0, "Error: No tasks to cancel.")
              /\ UNCHANGED <<file, tasks, cancelled>>
    /\ UNCHANGED <<queue, now, running, runner, cur, proc, overdue,
                   current_task, sent, nextUid, observe>>

\* _run_scheduler: scheduler.run(blocking=False) pops the head event when it
\* is due; when none is due it returns and the loop sleeps until the next poll
RunnerRun ==
    /\ runner = "idle"
    /\ queue # <<>>
    /\ queue[HeapHead(queue)].time <= now
    /\ cur' = queue[HeapHead(queue)].task
    /\ queue' = RemoveAt(queue, HeapHead(queue))
    /\ runner' = "send"
    /\ op' = NoOp
    /\ UNCHANGED <<file, tasks, now, running, proc, overdue, current_task,
                   sent, cancelled, nextUid, observe>>

\* execute_task on the runner thread: direct_answer; an exception leaves
\* scheduler.run and _run_scheduler, which ends the thread
RunnerSend ==
    /\ runner = "send"
    /\ \E out \in SendOutcomes :
        /\ sent' = count_send(sent, cur.uid)
        /\ runner' = IF out = "ok" THEN "remove" ELSE "dead"
        /\ op' = NoOp
    /\ UNCHANGED <<file, tasks, queue, now, running, cur, proc, overdue,
                   current_task, cancelled, nextUid, observe>>

\* execute_task on the runner thread: remove_task
RunnerRemove ==
    /\ runner = "remove"
    /\ tasks' = remove_task(tasks, cur)
    /\ file' = remove_task_file(tasks, file, cur)
    /\ runner' = "idle"
    /\ op' = NoOp
    /\ UNCHANGED <<queue, now, running, cur, proc, overdue, current_task,
                   sent, cancelled, nextUid, observe>>

\* The process ends (quit, or a crash): only tasks.json survives
Exit ==
    /\ proc # "down"
    /\ proc' = "down"
    /\ tasks' = <<>>
    /\ queue' = <<>>
    /\ running' = FALSE
    /\ runner' = "none"
    /\ cur' = NoTask
    /\ overdue' = <<>>
    /\ current_task' = 0
    /\ op' = NoOp
    /\ UNCHANGED <<file, now, sent, cancelled, nextUid, observe>>

\* list_all_scheduled_tasks: the JSON array of the file
list_all_scheduled_tasks(f) == f

\* cancel_scheduled_task_by_index taking the index as 1-based
cancel_by_index_one_based(index) ==
    /\ proc = "down"
    /\ LET ts == list_all_scheduled_tasks(file) IN
        IF index < 0 \/ index >= Len(ts)
          THEN /\ op' = Op("cancel_by_index", index,
                           "Invalid index. No task was cancelled.")
               /\ UNCHANGED file
          ELSE /\ file' = RemoveAt(ts, index)
               /\ op' = Op("cancel_by_index", index,
                           "Cancelled task at index")
    /\ UNCHANGED <<tasks, queue, now, running, runner, cur, proc, overdue,
                   current_task, sent, cancelled, nextUid, observe>>

\* `instagram schedule cancel <index>`: cancel_scheduled_task_by_index, a CLI
\* command of its own, run while no chat session holds the file
cancel_scheduled_task_by_index(index) ==
    /\ proc = "down"
    /\ LET ts == list_all_scheduled_tasks(file) IN
        IF index < 0 \/ index >= Len(ts)
          THEN /\ op' = Op("cancel_by_index", index,
                           "Invalid index. No task was cancelled.")
               /\ UNCHANGED file
          ELSE /\ file' = RemoveAt(ts, index + 1)
               /\ op' = Op("cancel_by_index", index,
                           "Cancelled task at index")
    /\ UNCHANGED <<tasks, queue, now, running, runner, cur, proc, overdue,
                   current_task, sent, cancelled, nextUid, observe>>

\* No chat is open
\* The chat interface idle, whatever the window shows
ChatRestIdle ==
    /\ server = <<>>
    /\ thread = <<>>
    /\ pending_msgs = <<>>
    /\ scroll_offset = 0
    /\ refresh_enabled = FALSE
    /\ refresh_lock = "none"
    /\ refresher = [pc |-> "none", new_messages |-> <<>>]
    /\ senders = <<>>
    /\ nextTmp = 1
    /\ session = "none"

ChatIdle == ChatRestIdle /\ messages = <<>>

OffSched == ChatIdle /\ ExtraIdle

SchedNext ==
    \/ Tick /\ UNCHANGED offSched
    \/ Construct /\ UNCHANGED offSched
    \/ schedule_tasks_on_startup /\ UNCHANGED offSched
    \/ OverdueSend /\ UNCHANGED offSched
    \/ OverdueRemove /\ UNCHANGED offSched
    \/ OverdueDelete /\ UNCHANGED offSched
    \/ OverdueQuit /\ UNCHANGED offSched
    \/ \E th \in ThreadIds, t \in {BadTime} \cup (0..MaxTime), m \in Messages :
          add_task(th, t, m) /\ UNCHANGED offSched
    \/ cancel_latest_task /\ UNCHANGED offSched
    \/ RunnerRun /\ UNCHANGED offSched
    \/ RunnerSend /\ UNCHANGED offSched
    \/ RunnerRemove /\ UNCHANGED offSched
    \/ Exit /\ UNCHANGED offSched

SchedStart == SchedInit /\ OffSched

SchedSpec == SchedStart /\ [][SchedNext]_vars

(* A running session: the state init_chat leaves on an empty tasks.json     *)
(* (nothing loaded, nothing armed, start_scheduler called), with the calls  *)
(* of the schedule, delay and cancel commands recorded in op.               *)
SessionInit ==
    /\ file = <<>>
    /\ tasks = <<>>
    /\ queue = <<>>
    /\ now = 0
    /\ running = TRUE
    /\ runner = "idle"
    /\ cur = NoTask
    /\ proc = "up"
    /\ overdue = <<>>
    /\ current_task = 0
    /\ sent = [u \in 1..MaxUid |-> 0]
    /\ cancelled = {}
    /\ op = NoOp
    /\ observe = TRUE
    /\ nextUid = 1

SessionNext ==
    \/ Tick /\ UNCHANGED offSched
    \/ \E th \in ThreadIds, t \in {BadTime} \cup (0..MaxTime), m \in Messages :
          add_task(th, t, m) /\ UNCHANGED offSched
    \/ cancel_latest_task /\ UNCHANGED offSched
    \/ RunnerRun /\ UNCHANGED offSched
    \/ RunnerSend /\ UNCHANGED offSched
    \/ RunnerRemove /\ UNCHANGED offSched

SessionStart == SessionInit /\ OffSched

SessionSpec == SessionStart /\ [][SessionNext]_vars

\* The runner thread of a running session is scheduled again and again: a
\* poll that finds a due event, the send and the removal all get their turn
SessionFairness ==
    /\ WF_vars(RunnerRun /\ UNCHANGED offSched)
    /\ WF_vars(RunnerSend /\ UNCHANGED offSched)
    /\ WF_vars(RunnerRemove /\ UNCHANGED offSched)

SessionLiveSpec == SessionStart /\ [][SessionNext]_vars /\ SessionFairness

(* The schedule commands of the CLI, run on the file between sessions *)
CliInit ==
    /\ file \in CliFiles
    /\ tasks = <<>>
    /\ queue = <<>>
    /\ now = 0
    /\ running = FALSE
    /\ runner = "none"
    /\ cur = NoTask
    /\ proc = "down"
    /\ overdue = <<>>
    /\ current_task = 0
    /\ sent = [u \in 1..MaxUid |-> 0]
    /\ cancelled = {}
    /\ op = NoOp
    /\ observe = TRUE
    /\ nextUid = Len(file) + 1

CliNext ==
    \E i \in (0 - 1)..(MaxCliLen + 1) :
        cancel_scheduled_task_by_index(i) /\ UNCHANGED offSched

CliStart == CliInit /\ OffSched

CliSpec == CliStart /\ [][CliNext]_vars

(* A session opened by init_chat on a file of tasks that are all in the   *)
(* future: the cancel command is given again and again.                   *)
LatestInit ==
    /\ file \in CliFiles
    /\ tasks = load_tasks(file)
    /\ queue = ArmFuture(ArmFuture(<<>>, tasks, 0), tasks, 0)
    /\ now = 0
    /\ running = TRUE
    /\ runner = "idle"
    /\ cur = NoTask
    /\ proc = "up"
    /\ overdue = <<>>
    /\ current_task = 0
    /\ sent = [u \in 1..MaxUid |-> 0]
    /\ cancelled = {}
    /\ op = NoOp
    /\ observe = TRUE
    /\ nextUid = Len(file) + 1

LatestNext == cancel_latest_task /\ UNCHANGED offSched

LatestStart == LatestInit /\ OffSched

LatestSpec == LatestStart /\ [][LatestNext]_vars

(* ============================ chat interface =========================== *)
\* A text is a sequence of tokens; " " is one whitespace character.
Inputs == {<<"hi">>, <<"a", " ", " ", ":smile:">>}

\* MessageInfo / _OptimisticMessageInfo
Msg(id, sender, content, pending) ==
    [id |-> id, sender |-> sender, content |-> content, pending |-> pending]

\* A variant that hands every send the same temporary id
reused_id(k) == 0 - 1

\* tmp_id = f"tmp:{uuid.uuid4()}": distinct from every server id
TmpId(k) == 0 - k

Ids(s) == {s[i].id : i \in 1..Len(s)}

\* str.split(): the words of a text, whitespace dropped
RECURSIVE split(_)
split(text) ==
    IF text = <<>> THEN <<>>
    ELSE IF Head(text) = " " THEN split(Tail(text))
         ELSE <<Head(text)>> \o split(Tail(text))

\* emoji.emojize of a matched :name: word
emojize(word) == IF word = ":smile:" THEN "U+1F604" ELSE word

\* " ".join(result)
RECURSIVE join(_)
join(words) ==
    IF words = <<>> THEN <<>>
    ELSE IF Len(words) = 1 THEN <<emojize(Head(words))>>
         ELSE <<emojize(Head(words)), " ">> \o join(Tail(words))

replace_emojis(text) == join(split(text))

\* The last n elements of s
LastN(s, n) == IF Len(s) <= n THEN s ELSE SubSeq(s, Len(s) - n + 1, Len(s))

\* direct_thread_chunk without cursor: the newest page of the thread
fetch_chat_history(srv, num_messages) == LastN(srv, num_messages)

\* direct_thread_chunk from the cursor: the page before the oldest one held
fetch_older_messages_chunk(srv, th, num_messages) ==
    IF th = <<>> THEN LastN(srv, num_messages)
    ELSE LastN(SelectSeq(srv, LAMBDA m : m.id < th[1].id), num_messages) \o th

\* The thread's messages as MessageInfo, oldest first
get_chat_history(th) ==
    [i \in 1..Len(th) |-> Msg(th[i].id, th[i].sender, th[i].content, FALSE)]

\* Re-append the pending messages whose id the list does not hold
RECURSIVE merge_pending(_, _)
merge_pending(msgs, pend) ==
    IF pend = <<>> THEN msgs
    ELSE merge_pending(IF Head(pend).id \in Ids(msgs) THEN msgs
                       ELSE Append(msgs, Head(pend)),
                       Tail(pend))

\* len(messages_lines): one line of text and one spacer per message
messages_lines(msgs) == Len(msgs) + Len(msgs)

\* next(i for i, m in enumerate(messages) if m.id == tmp_id), None as 0
index_of(msgs, id) ==
    IF id \in Ids(msgs) THEN CHOOSE i \in 1..Len(msgs) :
                                /\ msgs[i].id = id
                                /\ \A j \in 1..(i - 1) : msgs[j].id # id
    ELSE 0

NoSender == [pc |-> "none", raw |-> <<>>, text |-> <<>>, idx |-> 0]

\* Everything of the scheduler stays as it is
SchedIdle ==
    /\ file = <<>>
    /\ tasks = <<>>
    /\ queue = <<>>
    /\ now = 0
    /\ running = FALSE
    /\ runner = "none"
    /\ cur = NoTask
    /\ proc = "down"
    /\ overdue = <<>>
    /\ current_task = NoTask
    /\ sent = [u \in 1..MaxUid |-> 0]
    /\ cancelled = {}
    /\ op = NoOp
    /\ observe = FALSE
    /\ nextUid = 1

OffChat == SchedIdle /\ ExtraIdle

CoreIdle == SchedIdle /\ ChatIdle

\* ChatInterface.__init__ on a thread with one message received
ChatInit ==
    /\ server = <<[id |-> 1, sender |-> "Bob", content |-> <<"yo">>]>>
    /\ thread = server
    /\ messages = get_chat_history(thread)
    /\ pending_msgs = <<>>
    /\ scroll_offset = 0
    /\ refresh_enabled = TRUE
    /\ refresh_lock = "none"
    /\ refresher = [pc |-> "idle", new_messages |-> <<>>]
    /\ senders = [k \in 1..MaxSubmits |-> NoSender]
    /\ nextTmp = 1
    /\ session = "running"

\* The other participant sends a message
Incoming ==
    /\ session = "running"
    /\ Len(SelectSeq(server, LAMBDA m : m.sender = "Bob")) <= MaxIncoming
    /\ server' = Append(server, [id |-> Len(server) + 1, sender |-> "Bob",
                                 content |-> <<"yo">>])
    /\ UNCHANGED <<thread, messages, pending_msgs, scroll_offset, refresh_enabled,
                   refresh_lock, refresher, senders, nextTmp, session>>

\* _handle_chat_message: the optimistic append, then the sender thread starts
handle_chat_message(message) ==
    /\ session = "running"
    /\ refresh_lock = "none"
    /\ nextTmp <= MaxSubmits
    /\ LET processed_message == replace_emojis(message)
           tmp_id == TmpId(nextTmp)
           pending_msg == Msg(tmp_id, "You", processed_message, TRUE)
       IN /\ messages' = Append(messages, pending_msg)
          /\ pending_msgs' = Append(pending_msgs, pending_msg)
          /\ scroll_offset' = 0
          /\ senders' = [senders EXCEPT ![nextTmp] =
                            [pc |-> "sending", raw |-> message,
                             text |-> processed_message, idx |-> 0]]
    /\ nextTmp' = nextTmp + 1
    /\ UNCHANGED <<server, thread, refresh_enabled, refresh_lock, refresher, session>>

\* _send_in_background: send_text returns, or raises
send_text(k, outcome) ==
    /\ session = "running"
    /\ senders[k].pc = "sending"
    /\ IF outcome = "ok"
       THEN /\ server' = Append(server, [id |-> Len(server) + 1, sender |-> "You",
                                         content |-> replace_emojis(senders[k].text)])
            /\ senders' = [senders EXCEPT ![k].pc = "sent_ok"]
       ELSE /\ server' = server
            /\ senders' = [senders EXCEPT ![k].pc = "sent_fail"]
    /\ UNCHANGED <<thread, messages, pending_msgs, scroll_offset, refresh_enabled,
                   refresh_lock, refresher, nextTmp, session>>

\* _send_in_background: takes the lock and looks up the temporary entry
SenderLock(k) ==
    /\ session = "running"
    /\ senders[k].pc \in {"sent_ok", "sent_fail"}
    /\ refresh_lock = "none"
    /\ refresh_lock' = "sender"
    /\ senders' = [senders EXCEPT
                     ![k].pc = IF senders[k].pc = "sent_ok" THEN "locked_ok"
                               ELSE "locked_fail",
                     ![k].idx = index_of(messages, TmpId(k))]
    /\ UNCHANGED <<server, thread, messages, pending_msgs, scroll_offset,
                   refresh_enabled, refresher, nextTmp, session>>

\* messages[idx].pending = False, on the object the pending set may share
clear_pending(msgs, idx) ==
    IF idx # 0 /\ idx <= Len(msgs) THEN [msgs EXCEPT ![idx].pending = FALSE] ELSE msgs

\* _send_in_background after a send that returned: refetch and replace
SenderFinishOk(k, outcome) ==
    /\ session = "running"
    /\ senders[k].pc = "locked_ok"
    /\ IF outcome = "ok"
       THEN /\ thread' = fetch_chat_history(server, messages_per_fetch)
            /\ pending_msgs' = SelectSeq(pending_msgs, LAMBDA m : m.id # TmpId(k))
            /\ messages' = merge_pending(get_chat_history(thread'), pending_msgs')
       ELSE /\ thread' = thread
            /\ messages' = clear_pending(messages, senders[k].idx)
            /\ pending_msgs' =
                 IF senders[k].idx # 0 /\ senders[k].idx <= Len(messages)
                 THEN [i \in 1..Len(pending_msgs) |->
                         IF pending_msgs[i].id = messages[senders[k].idx].id
                         THEN [pending_msgs[i] EXCEPT !.pending = FALSE]
                         ELSE pending_msgs[i]]
                 ELSE pending_msgs
    /\ senders' = [senders EXCEPT ![k].pc = "done"]
    /\ refresh_lock' = "none"
    /\ UNCHANGED <<server, scroll_offset, refresh_enabled, refresher, nextTmp, session>>

\* _send_in_background after a send that raised: drop the temporary entry
SenderFinishFail(k) ==
    /\ session = "running"
    /\ senders[k].pc = "locked_fail"
    /\ messages' = IF senders[k].idx # 0 /\ senders[k].idx <= Len(messages)
                   THEN RemoveAt(messages, senders[k].idx)
                   ELSE messages
    /\ pending_msgs' = SelectSeq(pending_msgs, LAMBDA m : m.id # TmpId(k))
    /\ senders' = [senders EXCEPT ![k].pc = "done"]
    /\ refresh_lock' = "none"
    /\ UNCHANGED <<server, thread, scroll_offset, refresh_enabled, refresher,
                   nextTmp, session>>

\* _refresh_chat: the fetch of one iteration (a fetch that raises changes nothing)
RefreshFetch ==
    /\ session = "running"
    /\ refresher.pc = "idle"
    /\ refresh_enabled
    /\ thread' = fetch_chat_history(server, messages_per_fetch)
    /\ refresher' = [pc |-> "fetched", new_messages |-> get_chat_history(thread')]
    /\ UNCHANGED <<server, messages, pending_msgs, scroll_offset, refresh_enabled,
                   refresh_lock, senders, nextTmp, session>>

\* _refresh_chat: the replacement of the list, under the lock
RefreshApply ==
    /\ session = "running"
    /\ refresher.pc = "fetched"
    /\ refresh_lock = "none"
    /\ messages' = merge_pending(refresher.new_messages, pending_msgs)
    /\ refresher' = [pc |-> "idle", new_messages |-> <<>>]
    /\ UNCHANGED <<server, thread, pending_msgs, scroll_offset, refresh_enabled,
                   refresh_lock, senders, nextTmp, session>>

Min(a, b) == IF a <= b THEN a ELSE b
Max(a, b) == IF a >= b THEN a ELSE b

\* toggle_refresh
toggle_refresh(enabled) == enabled

\* _handle_command, "__SCROLL_UP__"
scroll_up(outcome) ==
    /\ session = "running"
    /\ refresh_enabled' = toggle_refresh(FALSE)
    /\ IF messages_lines(messages) - Height - scroll_offset < 5
       THEN IF outcome = "ok"
            THEN /\ thread' = fetch_older_messages_chunk(server, thread,
                                                         messages_per_fetch)
                 /\ messages' = get_chat_history(thread')
                 /\ scroll_offset' = Min(scroll_offset + Height - 1,
                                         messages_lines(messages') - Height)
                 /\ session' = session
            ELSE /\ session' = "crashed"
                 /\ UNCHANGED <<thread, messages, scroll_offset>>
       ELSE /\ outcome = "ok"
            /\ scroll_offset' = Min(scroll_offset + Height - 1,
                                    messages_lines(messages) - Height)
            /\ UNCHANGED <<thread, messages, session>>
    /\ UNCHANGED <<server, pending_msgs, refresh_lock, refresher, senders, nextTmp>>

\* _handle_command, "__SCROLL_DOWN__"
scroll_down ==
    /\ session = "running"
    /\ scroll_offset' = Max(scroll_offset - Height + 1, 0)
    /\ refresh_enabled' = IF scroll_offset' = 0 THEN toggle_refresh(TRUE)
                          ELSE refresh_enabled
    /\ <<scroll_offset', refresh_enabled'>> # <<scroll_offset, refresh_enabled>>
    /\ UNCHANGED <<server, thread, messages, pending_msgs, refresh_lock, refresher,
                   senders, nextTmp, session>>

ChatNext ==
    \/ Incoming /\ UNCHANGED offChat
    \/ \E message \in Inputs : handle_chat_message(message) /\ UNCHANGED offChat
    \/ \E k \in 1..MaxSubmits, outcome \in SendOutcomes : send_text(k, outcome) /\ UNCHANGED offChat
    \/ \E k \in 1..MaxSubmits : SenderLock(k) /\ UNCHANGED offChat
    \/ \E k \in 1..MaxSubmits, outcome \in SendOutcomes : SenderFinishOk(k, outcome) /\ UNCHANGED offChat
    \/ \E k \in 1..MaxSubmits : SenderFinishFail(k) /\ UNCHANGED offChat
    \/ RefreshFetch /\ UNCHANGED offChat
    \/ RefreshApply /\ UNCHANGED offChat
    \/ \E outcome \in SendOutcomes : scroll_up(outcome) /\ UNCHANGED offChat
    \/ scroll_down /\ UNCHANGED offChat

ChatStart == ChatInit /\ OffChat

ChatSpec == ChatStart /\ [][ChatNext]_vars

(* ------------- the end of the session and the refresh loop ------------- *)
\* run: handle_input gave QUIT or BACK, stop_refresh is set and run returns;
\* session = "returned" stands for the flag being set
run_returns ==
    /\ session = "running"
    /\ session' = "returned"
    /\ UNCHANGED <<server, thread, messages, pending_msgs, scroll_offset,
                   refresh_enabled, refresh_lock, refresher, senders, nextTmp>>

\* _refresh_chat: `if self.stop_refresh.is_set(): return` after the fetch
RefreshStopCheck ==
    /\ refresher.pc = "fetched"
    /\ refresher' = IF session = "returned"
                    THEN [pc |-> "returned", new_messages |-> <<>>]
                    ELSE [refresher EXCEPT !.pc = "checked"]
    /\ UNCHANGED <<server, thread, messages, pending_msgs, scroll_offset,
                   refresh_enabled, refresh_lock, senders, nextTmp, session>>

\* _refresh_chat: `with self.refresh_lock:` and the replacement of the list
RefreshReplace ==
    /\ refresher.pc = "checked"
    /\ refresh_lock = "none"
    /\ messages' = merge_pending(refresher.new_messages, pending_msgs)
    /\ refresher' = [pc |-> "idle", new_messages |-> <<>>]
    /\ UNCHANGED <<server, thread, pending_msgs, scroll_offset, refresh_enabled,
                   refresh_lock, senders, nextTmp, session>>

\* _refresh_chat: `while not self.stop_refresh.is_set()` finds the flag set
RefreshExit ==
    /\ refresher.pc = "idle"
    /\ session = "returned"
    /\ refresher' = [pc |-> "returned", new_messages |-> <<>>]
    /\ UNCHANGED <<server, thread, messages, pending_msgs, scroll_offset,
                   refresh_enabled, refresh_lock, senders, nextTmp, session>>

QuitNext ==
    \/ Incoming /\ UNCHANGED offChat
    \/ \E message \in Inputs : handle_chat_message(message) /\ UNCHANGED offChat
    \/ \E k \in 1..MaxSubmits, outcome \in SendOutcomes : send_text(k, outcome) /\ UNCHANGED offChat
    \/ \E k \in 1..MaxSubmits : SenderLock(k) /\ UNCHANGED offChat
    \/ \E k \in 1..MaxSubmits, outcome \in SendOutcomes : SenderFinishOk(k, outcome) /\ UNCHANGED offChat
    \/ \E k \in 1..MaxSubmits : SenderFinishFail(k) /\ UNCHANGED offChat
    \/ RefreshFetch /\ UNCHANGED offChat
    \/ RefreshStopCheck /\ UNCHANGED offChat
    \/ RefreshReplace /\ UNCHANGED offChat
    \/ RefreshExit /\ UNCHANGED offChat
    \/ run_returns /\ UNCHANGED offChat

QuitSpec == ChatStart /\ [][QuitNext]_vars

\* C33: once run has returned, with the stop flag set, no refresh iteration
\* changes the message list.
C33_NoRefreshAfterReturn ==
    [][session = "returned" => messages' = messages]_vars

(* ======================= claims on the scheduler ======================= *)

QueueUids == {queue[k].task.uid : k \in 1..Len(queue)}
FileUids == {file[k].uid : k \in 1..Len(file)}
TaskUids == {tasks[k].uid : k \in 1..Len(tasks)}

\* C1: every scheduled task is fired exactly once by the background runner:
\* the runner never invokes the send action a second time for the same
\* record.
C1_FiredAtMostOnce == \A u \in 1..MaxUid : sent[u] <= 1

\* C2: add_task with a send time at or before the current time (delay <= 0)
\* returns the past-time error and leaves the task list, the persisted file
\* and the timer queue unchanged.
C2_PastRejected ==
    [][(op'.name = "add_task" /\ op'.arg # BadTime /\ op'.arg - now <= 0)
        => /\ op'.res = "Error: Cannot schedule a message in the past"
           /\ tasks' = tasks
           /\ file' = file
           /\ queue' = queue
           /\ runner' = runner]_vars

\* A rejected add_task with delay = 0 on a session that holds a task
C2_Witness ==
    /\ op.name = "add_task"
    /\ op.arg = now
    /\ op.res = "Error: Cannot schedule a message in the past"
    /\ Len(tasks) >= 1
    /\ Len(queue) >= 1

\* C3: cancelling index i with 0 <= i < n removes exactly the i-th record of
\* the persisted list and keeps the others in their order; any other index
\* leaves the file unchanged.
C3_CancelByIndex ==
    [][op'.name = "cancel_by_index"
        => IF 0 <= op'.arg /\ op'.arg < Len(file)
             THEN /\ Len(file') = Len(file) - 1
                  /\ \A j \in 1..Len(file') :
                        file'[j] = IF j <= op'.arg THEN file[j] ELSE file[j + 1]
             ELSE file' = file]_vars

\* The middle one of three records, with different neighbours, was cancelled
C3_Witness ==
    /\ op.name = "cancel_by_index"
    /\ op.arg = 1
    /\ op.res = "Cancelled task at index"
    /\ Len(file) = 2
    /\ file[1].uid = 1
    /\ file[2].uid = 3
    /\ file[1].message # file[2].message

\* C4: a record removed by cancel_latest_task is in neither the timer queue
\* nor the task list nor the persisted file, so the runner cannot fire it.
C4_CancelDisarms ==
    \A u \in cancelled : u \notin QueueUids /\ u \notin TaskUids /\ u \notin FileUids

\* C9: when schedule_tasks_on_startup(screen) evaluates the loaded tasks,
\* each one whose fire time has passed is handed to the recovery path and has
\* no entry in the timer queue, and each one still in the future has one.
C9_StartupClassifies ==
    [][(proc = "constructed" /\ proc' \in {"overdue", "up"})
        => \A i \in 1..Len(tasks) :
              IF tasks[i].send_time <= now
                THEN /\ \E j \in 1..Len(overdue') : overdue'[j].uid = tasks[i].uid
                     /\ tasks[i].uid \notin {queue'[k].task.uid : k \in 1..Len(queue')}
                ELSE tasks[i].uid \in {queue'[k].task.uid : k \in 1..Len(queue')}]_vars

\* C10: once execute_task has ended on the runner, by returning or by the
\* send raising, the fired record is not in the persisted file.
C10_FiredIsRemoved ==
    [][((runner = "send" /\ runner' = "dead") \/ (runner = "remove" /\ runner' = "idle"))
        => cur.uid \notin {file'[k].uid : k \in 1..Len(file')}]_vars

(* ===================== claims on the chat interface ==================== *)

\* The send whose optimistic append this step performs
Submitted == nextTmp' = nextTmp + 1

\* The entries of a list that carry the id
EntriesOf(msgs, id) == {i \in 1..Len(msgs) : msgs[i].id = id}

C6_SuccessReplaces ==
    [][\A k \in 1..MaxSubmits :
         (senders[k].pc = "locked_ok" /\ senders'[k].pc = "done") =>
            /\ TmpId(k) \notin Ids(messages')
            /\ TmpId(k) \notin Ids(pending_msgs')
            /\ \E i \in 1..Len(messages') :
                  /\ messages'[i].id \in Ids(server)
                  /\ ~messages'[i].pending
                  /\ messages'[i].content = senders[k].text]_vars

\* C7: when the completion handler of a send that failed has run, no entry
\* with the temporary id is left in the list or the pending set, every other
\* entry of the list is as it was, and nothing of the send reached the server.
C7_FailureLeavesNoTrace ==
    [][\A k \in 1..MaxSubmits :
         (senders[k].pc = "locked_fail" /\ senders'[k].pc = "done") =>
            /\ TmpId(k) \notin Ids(messages')
            /\ TmpId(k) \notin Ids(pending_msgs')
            /\ messages' = SelectSeq(messages, LAMBDA m : m.id # TmpId(k))
            /\ server' = server]_vars

\* C8: every temporary id in the pending set has exactly one entry in the
\* message list, whatever sends, completions, polls and scrolls have happened.
C8_PendingNeverLost ==
    \A i \in 1..Len(pending_msgs) :
        Cardinality(EntriesOf(messages, pending_msgs[i].id)) = 1

\* C11: when the runner invokes the send action for a due task, the task's
\* record has already been removed from the persisted file.
C11_RemovedBeforeSend ==
    [][(runner = "send" /\ runner' \in {"remove", "dead"})
        => cur.uid \notin FileUids]_vars

(* ========================= scheduler singleton ========================= *)
\* The client and task_file arguments an acquisition may carry ("none": None)
Clients == {"none", "c1", "c2"}
Paths == {"none", "missing", "f1", "f2"}

\* task_file.exists()
exists(path) == path \in {"f1", "f2"}

\* The contents of the task files on disk
Disk(path) == IF path = "f2" THEN <<Task("t1", 1, "hi", 1)>> ELSE <<>>

NoInstance == [id |-> 0]

\* A variant of __init__ without the `_initialized` guard
init_always(inst, client, task_file) ==
    [id |-> inst.id, client |-> inst.client, task_file |-> task_file,
     tasks |-> load_tasks(Disk(task_file)), initialized |-> TRUE,
     running |-> load_tasks(Disk(task_file)) # <<>>]

\* MessageScheduler.__init__
init(inst, client, task_file) ==
    IF inst.initialized THEN inst
    ELSE [id |-> inst.id, client |-> inst.client, task_file |-> task_file,
          tasks |-> load_tasks(Disk(task_file)), initialized |-> TRUE,
          running |-> load_tasks(Disk(task_file)) # <<>>]

\* What an acquisition gave
Acquired(via, client, task_file, res, inst) ==
    [via |-> via, client |-> client, task_file |-> task_file, res |-> res,
     id |-> inst.id, tasks |-> IF inst.id = 0 THEN <<>> ELSE inst.tasks]

\* MessageScheduler(client, task_file), directly or through get_instance
acquire(via, client, task_file) ==
    IF instance.id = 0
    THEN IF task_file = "none" \/ ~exists(task_file) \/ client = "none"
         THEN /\ acquired' = Acquired(via, client, task_file, "ValueError", NoInstance)
              /\ UNCHANGED <<instance, instances>>
         ELSE /\ instances < MaxInstances
              /\ instances' = instances + 1
              /\ instance' = init([id |-> instances + 1, client |-> client,
                                   task_file |-> "none", tasks |-> <<>>,
                                   initialized |-> FALSE, running |-> FALSE],
                                  client, task_file)
              /\ acquired' = Acquired(via, client, task_file, "instance", instance')
    ELSE /\ instance' = init(instance, client, task_file)
         /\ acquired' = Acquired(via, client, task_file, "instance", instance')
         /\ UNCHANGED instances

\* add_task on the instance, as far as its task list goes
instance_add_task ==
    /\ instance.id # 0
    /\ Len(instance.tasks) < MaxInstanceTasks
    /\ instance' = [instance EXCEPT
                      !.tasks = Append(@, Task("t1", 2, "hi", Len(@) + 1)),
                      !.running = TRUE]
    /\ UNCHANGED <<acquired, instances>>

\* MessageScheduler.clear_instance
clear_instance ==
    /\ instance.id # 0
    /\ instance' = NoInstance
    /\ UNCHANGED <<acquired, instances>>

SingletonNext ==
    \/ \E via \in {"constructor", "get_instance"}, client \in Clients, task_file \in Paths :
          acquire(via, client, task_file) /\ UNCHANGED <<coreVars, storeVars, editorVars, uiVars>>
    \/ instance_add_task /\ UNCHANGED <<coreVars, storeVars, editorVars, uiVars>>
    \/ clear_instance /\ UNCHANGED <<coreVars, storeVars, editorVars, uiVars>>

SingletonStart == ExtraIdle /\ CoreIdle

SingletonSpec == SingletonStart /\ [][SingletonNext]_vars

\* C12: with no instance, an acquisition without an existing task file or
\* without a client fails with an error and creates no instance; with an
\* instance, every acquisition, whatever its arguments, returns that
\* instance with its client, task file and task list unchanged.
C12_Singleton ==
    [][acquired' # acquired =>
        IF instance.id = 0
        THEN (acquired'.task_file = "none" \/ ~exists(acquired'.task_file)
                \/ acquired'.client = "none")
             => (acquired'.res = "ValueError" /\ instance' = NoInstance)
        ELSE /\ acquired'.res = "instance"
             /\ acquired'.id = instance.id
             /\ instance' = instance]_vars

\* get_instance with another client and another file was handed the
\* instance, whose task list is no longer what its file held when loaded
C12_Witness ==
    /\ instance.id # 0
    /\ acquired.res = "instance"
    /\ acquired.via = "get_instance"
    /\ acquired.id = instance.id
    /\ acquired.client \notin {"none", instance.client}
    /\ exists(acquired.task_file)
    /\ acquired.task_file # instance.task_file
    /\ acquired.tasks = instance.tasks
    /\ instance.tasks # load_tasks(Disk(instance.task_file))

(* ============================ task file reads ========================== *)
\* What tasks.json can be: absent, zero bytes (as path.touch() leaves it),
\* bytes that are not JSON, or a JSON list of task records
DiskStates ==
    {[kind |-> k, tasks |-> <<>>] : k \in {"missing", "empty", "corrupt"}}
        \cup {[kind |-> "list", tasks |-> f] : f \in CliFiles}

\* json.load(f)
json_load(d) ==
    IF d.kind = "list" THEN [res |-> "ok", tasks |-> d.tasks]
    ELSE [res |-> "JSONDecodeError", tasks |-> <<>>]

\* MessageScheduler.load_tasks on the file as found
load_tasks_file(d) ==
    IF d.kind = "missing" THEN [res |-> "ok", tasks |-> <<>>]
    ELSE IF json_load(d).res = "ok"
         THEN [res |-> "ok", tasks |-> load_tasks(json_load(d).tasks)]
         ELSE [res |-> "ok", tasks |-> <<>>]

\* list_all_scheduled_tasks on the file as found
list_tasks_file(d) ==
    IF d.kind = "missing" THEN [res |-> "ok", tasks |-> <<>>]
    ELSE IF json_load(d).res = "ok"
         THEN [res |-> "ok", tasks |-> list_all_scheduled_tasks(json_load(d).tasks)]
         ELSE json_load(d)

\* Something outside the program leaves tasks.json in another state
DiskChanges ==
    /\ \E d \in DiskStates : disk' = d
    /\ disk' # disk
    /\ reading' = [op |-> "none"]

\* MessageScheduler.load_tasks
read_load_tasks ==
    /\ reading' = [op |-> "load_tasks", res |-> load_tasks_file(disk).res,
                   tasks |-> load_tasks_file(disk).tasks]
    /\ disk' = disk

\* list_all_scheduled_tasks
read_list_all ==
    /\ reading' = [op |-> "list_all_scheduled_tasks", res |-> list_tasks_file(disk).res,
                   tasks |-> list_tasks_file(disk).tasks]
    /\ disk' = disk

\* cancel_scheduled_task_by_index on the file as found
read_cancel_by_index(index) ==
    LET got == list_tasks_file(disk) IN
    /\ reading' = [op |-> "cancel_scheduled_task_by_index", res |-> got.res,
                   tasks |-> got.tasks]
    /\ IF got.res = "ok" /\ ~(index < 0 \/ index >= Len(got.tasks))
       THEN disk' = [kind |-> "list", tasks |-> RemoveAt(got.tasks, index + 1)]
       ELSE disk' = disk

StoreNext ==
    \/ DiskChanges /\ UNCHANGED <<coreVars, singletonVars, editorVars, uiVars>>
    \/ read_load_tasks /\ UNCHANGED <<coreVars, singletonVars, editorVars, uiVars>>
    \/ read_list_all /\ UNCHANGED <<coreVars, singletonVars, editorVars, uiVars>>
    \/ \E index \in (0 - 1)..MaxCliLen :
          read_cancel_by_index(index) /\ UNCHANGED <<coreVars, singletonVars, editorVars, uiVars>>

StoreStart == ExtraIdle /\ CoreIdle

StoreSpec == StoreStart /\ [][StoreNext]_vars

\* C13: every operation that reads a missing or unparsable task file ends
\* without an error and with the empty task list.
C13_BadFileIsNoTasks ==
    (reading.op # "none" /\ disk.kind \in {"missing", "empty", "corrupt"})
        => (reading.res = "ok" /\ reading.tasks = <<>>)

(* ================================ input box ============================ *)
\* The characters a key can insert
Chars == {"a", "\n"}

\* Python's None where an integer is expected
None == 0 - 1

\* _wrap_text, from the lines and the current line built so far
RECURSIVE wrap_from(_, _, _)
wrap_from(text, lines, current_line) ==
    IF text = <<>>
    THEN IF current_line # <<>> THEN Append(lines, current_line) ELSE lines
    ELSE IF Head(text) = "\n"
         THEN wrap_from(Tail(text), Append(lines, current_line), <<>>)
         ELSE IF Len(current_line) >= VisibleWidth
              THEN wrap_from(Tail(text), Append(lines, current_line), <<Head(text)>>)
              ELSE wrap_from(Tail(text), lines, Append(current_line, Head(text)))

\* InputBox._wrap_text
wrap_text(text) == wrap_from(text, <<>>, <<>>)

\* self.buffer[: self.cursor_pos]
text_before_cursor(buf, pos) ==
    IF pos = None THEN buf ELSE SubSeq(buf, 1, pos)

\* InputBox._calculate_cursor_position: <<row, col>>
calculate_cursor_position(buf, pos) ==
    LET lines == wrap_text(text_before_cursor(buf, pos)) IN
    IF lines = <<>> THEN <<0, 0>>
    ELSE <<Len(lines) - 1, Len(lines[Len(lines)])>>

RECURSIVE row_start(_, _)
row_start(lines, row) ==
    IF row = 0 THEN 0 ELSE row_start(lines, row - 1) + Len(lines[row]) + 1

\* InputBox._get_position_from_rowcol
get_position_from_rowcol(buf, row, col) ==
    LET lines == wrap_text(buf) IN
    IF row < 0 \/ row >= Len(lines) THEN None
    ELSE Min(row_start(lines, row) + col, Len(buf))

\* InputBox._adjust_scroll
adjust_scroll(buf, pos, scroll) ==
    LET row == calculate_cursor_position(buf, pos)[1] IN
    IF row < scroll THEN row
    ELSE IF row >= scroll + max_height THEN row - max_height + 1
         ELSE scroll

\* list.insert(i, x) and list.pop(i), 0-based
insert(buf, i, c) == SubSeq(buf, 1, i) \o <<c>> \o SubSeq(buf, i + 1, Len(buf))
pop(buf, i) == SubSeq(buf, 1, i) \o SubSeq(buf, i + 2, Len(buf))

\* What handle_key returned: None, or the text of the box
NoReturn == [kind |-> "None"]
Returned(buf) == [kind |-> "str", text |-> buf]

\* handle_input is reading keys: no exception, no result yet
Ready == box = "ok" /\ returned = NoReturn

\* A key whose handler compares or indexes with cursor_pos = None
TypeError ==
    /\ cursor_pos = None
    /\ box' = "TypeError"
    /\ UNCHANGED <<buffer, cursor_pos, box_scroll, returned>>

\* A step of the handlers that move the cursor or edit the buffer
Edit(buf, pos) ==
    /\ buffer' = buf
    /\ cursor_pos' = pos
    /\ box_scroll' = adjust_scroll(buf, pos, box_scroll)
    /\ box' = box
    /\ returned' = NoReturn

Stay == UNCHANGED <<buffer, cursor_pos, box_scroll, box, returned>>

\* handle_key, a printable character
key_char(c) ==
    /\ Ready
    /\ c # "\n"
    /\ Len(buffer) < MaxBuffer
    /\ IF cursor_pos = None THEN TypeError
       ELSE Edit(insert(buffer, cursor_pos, c), cursor_pos + 1)

\* Enter that answers with the text stripped of its leading and trailing blanks
enter_result_stripped(buf) ==
    IF \A i \in 1..Len(buf) : buf[i] = "\n" THEN NoReturn
    ELSE Returned(SubSeq(buf, CHOOSE i \in 1..Len(buf) : buf[i] # "\n" /\ \A j \in 1..(i - 1) : buf[j] = "\n",
                              CHOOSE i \in 1..Len(buf) : buf[i] # "\n" /\ \A j \in (i + 1)..Len(buf) : buf[j] = "\n"))

\* handle_key, Enter at the end of the text: res = "".join(self.buffer)
enter_result(buf) ==
    IF \A i \in 1..Len(buf) : buf[i] = "\n" THEN NoReturn ELSE Returned(buf)

\* handle_key, Enter: a new line inside the text, a submit at its end
key_enter ==
    /\ Ready
    /\ IF cursor_pos = None THEN TypeError
       ELSE IF cursor_pos < Len(buffer)
            THEN /\ Len(buffer) < MaxBuffer
                 /\ Edit(insert(buffer, cursor_pos, "\n"), cursor_pos + 1)
            ELSE /\ returned' = enter_result(buffer)
                 /\ UNCHANGED <<buffer, cursor_pos, box_scroll, box>>

\* handle_input entered again after a result: input_box.clear()
clear ==
    /\ box = "ok"
    /\ returned # NoReturn
    /\ buffer' = <<>>
    /\ cursor_pos' = 0
    /\ box_scroll' = 0
    /\ box' = box
    /\ returned' = NoReturn

\* handle_key, KEY_BACKSPACE
key_backspace ==
    /\ Ready
    /\ IF cursor_pos = None THEN TypeError
       ELSE IF cursor_pos > 0
            THEN Edit(pop(buffer, cursor_pos - 1), cursor_pos - 1)
            ELSE Stay

\* handle_key, KEY_DC
key_delete ==
    /\ Ready
    /\ IF cursor_pos = None THEN TypeError
       ELSE IF cursor_pos < Len(buffer)
            THEN Edit(pop(buffer, cursor_pos), cursor_pos)
            ELSE Stay

\* handle_key, KEY_LEFT
key_left ==
    /\ Ready
    /\ IF cursor_pos = None THEN TypeError
       ELSE IF cursor_pos > 0 THEN Edit(buffer, cursor_pos - 1) ELSE Stay

\* handle_key, KEY_RIGHT
key_right ==
    /\ Ready
    /\ IF cursor_pos = None THEN TypeError
       ELSE IF cursor_pos < Len(buffer) THEN Edit(buffer, cursor_pos + 1) ELSE Stay

\* handle_key, KEY_UP
key_up ==
    /\ Ready
    /\ LET rc == calculate_cursor_position(buffer, cursor_pos) IN
       IF rc[1] > 0
       THEN Edit(buffer, get_position_from_rowcol(buffer, rc[1] - 1, rc[2]))
       ELSE Stay

\* handle_key, KEY_DOWN
key_down ==
    /\ Ready
    /\ LET rc == calculate_cursor_position(buffer, cursor_pos)
           target_pos == get_position_from_rowcol(buffer, rc[1] + 1, rc[2])
       IN IF target_pos # None THEN Edit(buffer, target_pos) ELSE Stay

\* handle_key, KEY_HOME
key_home ==
    /\ Ready
    /\ LET rc == calculate_cursor_position(buffer, cursor_pos) IN
       Edit(buffer, get_position_from_rowcol(buffer, rc[1], 0))

\* handle_key, KEY_END
key_end ==
    /\ Ready
    /\ LET rc == calculate_cursor_position(buffer, cursor_pos)
           next_row_start == get_position_from_rowcol(buffer, rc[1] + 1, 0)
       IN IF next_row_start = None THEN Edit(buffer, Len(buffer))
          ELSE Edit(buffer, next_row_start - 1)

EditorNext ==
    \/ \E c \in Chars : key_char(c) /\ UNCHANGED <<coreVars, singletonVars, storeVars, uiVars>>
    \/ key_enter /\ UNCHANGED <<coreVars, singletonVars, storeVars, uiVars>>
    \/ key_backspace /\ UNCHANGED <<coreVars, singletonVars, storeVars, uiVars>>
    \/ key_delete /\ UNCHANGED <<coreVars, singletonVars, storeVars, uiVars>>
    \/ key_left /\ UNCHANGED <<coreVars, singletonVars, storeVars, uiVars>>
    \/ key_right /\ UNCHANGED <<coreVars, singletonVars, storeVars, uiVars>>
    \/ key_up /\ UNCHANGED <<coreVars, singletonVars, storeVars, uiVars>>
    \/ key_down /\ UNCHANGED <<coreVars, singletonVars, storeVars, uiVars>>
    \/ key_home /\ UNCHANGED <<coreVars, singletonVars, storeVars, uiVars>>
    \/ key_end /\ UNCHANGED <<coreVars, singletonVars, storeVars, uiVars>>
    \/ clear /\ UNCHANGED <<coreVars, singletonVars, storeVars, uiVars>>

EditorStart == ExtraIdle /\ CoreIdle

EditorSpec == EditorStart /\ [][EditorNext]_vars

\* C20: after any sequence of editor keys from an empty buffer the cursor
\* offset is an integer between 0 and the length of the buffer.
C20_CursorInBuffer == cursor_pos # None /\ 0 <= cursor_pos /\ cursor_pos <= Len(buffer)

\* C21: Enter with the cursor at the end of a text that is not all blank
\* returns the whole text and leaves the buffer as it is; Enter with the
\* cursor before the end returns nothing, inserts one newline at the cursor
\* and moves the cursor one place to the right.
C21_EnterSubmitsOrBreaks ==
    [][key_enter /\ cursor_pos # None =>
          IF cursor_pos < Len(buffer)
          THEN /\ returned' = NoReturn
               /\ buffer' = insert(buffer, cursor_pos, "\n")
               /\ cursor_pos' = cursor_pos + 1
          ELSE (\E i \in 1..Len(buffer) : buffer[i] # "\n") =>
                   /\ returned' = Returned(buffer)
                   /\ buffer' = buffer]_vars

\* A text with a line break made by Enter inside it has been submitted
C21_Witness ==
    /\ returned # NoReturn
    /\ returned.text = buffer
    /\ \E i \in 2..(Len(buffer) - 1) : buffer[i] = "\n"
    /\ buffer[Len(buffer)] = "a"

\* C35: for every buffer and every cursor offset, the offset translated to
\* (row, column) with the wrap result and mapped back is the same offset, on
\* soft-wrapped rows and on rows ended by a newline alike.
C35_RowColRoundTrip ==
    cursor_pos # None =>
        LET rc == calculate_cursor_position(buffer, cursor_pos) IN
        get_position_from_rowcol(buffer, rc[1], rc[2]) = cursor_pos

\* C22: in every reachable state the scroll offset is a count of lines
\* scrolled up from the bottom, 0 <= scroll_offset <= max(0, total_lines -
\* viewport_height), after any scroll-up and scroll-down commands and for
\* conversations of any length.
C22_ScrollOffsetInRange ==
    /\ 0 <= scroll_offset
    /\ scroll_offset <= Max(0, messages_lines(messages) - Height)

\* C24: the message list and the pending set are changed only by the thread
\* that holds refresh_lock: while one thread holds the lock, no step of another
\* thread replaces or rebuilds them.
C24_MutationsHoldMutex ==
    [][(refresh_lock # "none" /\ refresh_lock' = refresh_lock) =>
           (messages' = messages /\ pending_msgs' = pending_msgs)]_vars

\* C25: no thread makes a provider call (send or fetch) while it holds
\* refresh_lock, so the input thread never waits for the network when it
\* takes the lock for the next submission.
C25_NoProviderCallUnderMutex ==
    \A k \in 1..MaxSubmits : senders[k].pc = "locked_ok" => refresh_lock = "none"

\* C26: whenever the controller waits for input, refresh_enabled is true when
\* scroll_offset = 0 and false when scroll_offset > 0.
C26_RefreshOffIffScrolled ==
    session = "running" =>
        /\ scroll_offset = 0 => refresh_enabled
        /\ scroll_offset > 0 => ~refresh_enabled

\* The refresh loop replaces the list
refresh_replaces == refresher.pc = "fetched" /\ refresher'.pc = "idle"

\* C36: a message of the user that the list shows as confirmed by the server
\* is still in the list after a replacement by the refresh loop.
C36_ConfirmedStays ==
    [][refresh_replaces =>
         \A i \in 1..Len(messages) :
            (/\ messages[i].sender = "You"
             /\ ~messages[i].pending
             /\ messages[i].id \in Ids(server)) => messages[i].id \in Ids(messages')]_vars

\* C37: while refresh is disabled the refresh loop does not replace the list.
C37_NoReplaceWhileDisabled ==
    [][(refresh_replaces /\ ~refresh_enabled) => messages' = messages]_vars

\* Record u is armed in the queue and its fire time has passed
due(u) == \E i \in 1..Len(queue) : queue[i].task.uid = u /\ queue[i].time <= now

\* C27: in a process that keeps running, every armed task whose fire time
\* has passed is eventually fired (its send is invoked), also when the send
\* of an earlier task failed.
C27_DueTasksFire ==
    \A u \in 1..MaxUid : due(u) ~> (sent[u] > 0)

\* The fields of the records of a task list, as dict equality and the JSON
\* file see them
fields(ts) == [i \in 1..Len(ts) |-> <<ts[i].thread_id, ts[i].send_time, ts[i].message>>]

\* C40: cancel_latest_task on a non-empty store removes the last element of
\* the task list and leaves the elements before it unchanged and in order,
\* also when an earlier task has the same fields as the last one; on an
\* empty store it answers with an error and changes nothing.
C40_CancelLatestRemovesLast ==
    [][op'.name = "cancel_latest_task" =>
          IF tasks = <<>>
          THEN /\ op'.res = "Error: No tasks to cancel."
               /\ tasks' = tasks
               /\ file' = file
          ELSE /\ fields(tasks') = fields(SubSeq(tasks, 1, Len(tasks) - 1))
               /\ fields(file') = fields(tasks')]_vars

(***************************************************************************)
(* Command text.  A text is a sequence of characters; ":", " ", the double *)
(* quote and "$" are themselves, and any other element stands for a run of *)
(* characters that are none of these ("schedule", "10:00", "x").           *)
(***************************************************************************)

\* Index of the first q in s after position i, or 0 when there is none
closing(s, i, q) ==
    IF \E j \in (i + 1)..Len(s) : s[j] = q
    THEN CHOOSE j \in (i + 1)..Len(s) :
            s[j] = q /\ \A k \in (i + 1)..(j - 1) : s[k] # q
    ELSE 0

\* \S+ from position i: the last position of the run of non-whitespace
run_end(s, i) ==
    CHOOSE j \in i..Len(s) :
        /\ \A k \in i..j : s[k] # " "
        /\ (j = Len(s) \/ s[j + 1] = " ")

\* A variant that knows atoms only: str.split()
RECURSIVE findall_atoms(_, _)
findall_atoms(s, i) ==
    IF i > Len(s) THEN <<>>
    ELSE IF s[i] # " "
         THEN <<SubSeq(s, i, run_end(s, i))>> \o findall_atoms(s, run_end(s, i) + 1)
         ELSE findall_atoms(s, i + 1)

\* re.findall(r'"([^"]+)"|\$([^$]+)\$|(\S+)', s) from position i, each match
\* reduced to `group[0] or group[1] or group[2]`
RECURSIVE findall(_, _)
findall(s, i) ==
    IF i > Len(s) THEN <<>>
    ELSE IF s[i] = "\"" /\ closing(s, i, "\"") > i + 1
         THEN <<SubSeq(s, i + 1, closing(s, i, "\"") - 1)>>
                  \o findall(s, closing(s, i, "\"") + 1)
    ELSE IF s[i] = "$" /\ closing(s, i, "$") > i + 1
         THEN <<SubSeq(s, i + 1, closing(s, i, "$") - 1)>>
                  \o findall(s, closing(s, i, "$") + 1)
    ELSE IF s[i] # " "
         THEN <<SubSeq(s, i, run_end(s, i))>> \o findall(s, run_end(s, i) + 1)
         ELSE findall(s, i + 1)

NotParsed == [kind |-> "none"]

\* CommandRegistry.parse_command
parse_command(command_str) ==
    LET tokens == findall(command_str, 1) IN
    IF tokens = <<>>
    THEN [kind |-> "error", text |-> "Error: Empty command string."]
    ELSE [kind |-> "command", command |-> Head(tokens), args |-> Tail(tokens)]

(* ------------------ the tokenizer applied to command texts ------------- *)

MaxItems == 3
MaxRaw == 4

\* What a user can mean by one word of a command: an atom, a span in double
\* quotes, a span in dollar signs
Items ==
    [form : {"atom"}, body : {<<"schedule">>}]
    \cup [form : {"quoted"},
          body : {<<"2025-01-01", " ", "10:00">>, <<"hello", " ", "there">>,
                  <<"$", "x", "$">>}]
    \cup [form : {"dollar"}, body : {<<"x", " ", "x">>, <<"\"", "x", "\"">>}]

ItemLists == UNION {[1..n -> Items] : n \in 1..MaxItems}

\* The text of one item as typed
typed(item) ==
    CASE item.form = "atom" -> item.body
      [] item.form = "quoted" -> <<"\"">> \o item.body \o <<"\"">>
      [] item.form = "dollar" -> <<"$">> \o item.body \o <<"$">>

\* The items typed one after the other with single spaces between them
RECURSIVE render(_)
render(items) ==
    IF Len(items) = 1 THEN typed(items[1])
    ELSE typed(items[1]) \o <<" ">> \o render(Tail(items))

bodies(items) == [i \in 1..Len(items) |-> items[i].body]

RawChars == {"\"", "$", " ", "x"}
RawTexts == UNION {[1..n -> RawChars] : n \in 0..MaxRaw}

CommandTexts == {render(items) : items \in ItemLists} \cup RawTexts

\* cmd_registry.parse_command(command_str), on its own
parse(command_str) ==
    /\ route.to = "none"
    /\ route' = [to |-> "command", text |-> command_str]
    /\ parsed' = parse_command(command_str)
    /\ UNCHANGED <<result, command_result, signal, awaiting, status, skip_message_selection,
                   selected_message_id, user_id, full_name, deleted, reply_to_id>>

ParseNext ==
    \E command_str \in CommandTexts :
        parse(command_str)
            /\ UNCHANGED <<coreVars, singletonVars, storeVars, editorVars,
                           windowVars, layoutVars>>

ParseStart == ExtraIdle /\ CoreIdle

ParseSpec == ParseStart /\ [][ParseNext]_vars

\* C18: a span in double quotes is one token without its quotes, a span in
\* dollar signs is one token without its dollar signs, and an atom is a token:
\* whenever the command text is a list of such items separated by single
\* spaces, the command is the first item's body and the arguments are the
\* bodies of the others, one argument per item.
C18_SpansAreTokens ==
    route.to = "command" =>
        \A items \in ItemLists :
            render(items) = route.text =>
                parsed = [kind |-> "command", command |-> items[1].body,
                          args |-> bodies(Tail(items))]

\* schedule "2025-01-01 10:00" "hello there" gave the command schedule with
\* exactly the two arguments 2025-01-01 10:00 and hello there
C18_Witness ==
    /\ route.to = "command"
    /\ route.text = <<"schedule", " ", "\"", "2025-01-01", " ", "10:00", "\"", " ",
                      "\"", "hello", " ", "there", "\"">>
    /\ parsed.kind = "command"
    /\ parsed.command = <<"schedule">>
    /\ Len(parsed.args) = 2
    /\ parsed.args = << <<"2025-01-01", " ", "10:00">>, <<"hello", " ", "there">> >>

(***************************************************************************)
(* The input loop: one submitted text is routed to the chat or to the      *)
(* command registry, and the command's result decides what happens next.   *)
(***************************************************************************)

MaxHistory == 3
MaxArgs == 2
MaxText == 3
MaxDeletes == 1

\* The names registered with @cmd_registry.register
Commands ==
    {"quit", "upload", "back", "view", "reply", "unsend", "config", "latex",
     "scrollup", "scrolldown", "schedule", "cancel", "delay", "summarize", "help"}

\* len(cmd.required_args)
required_args(name) ==
    CASE name \in {"view", "config", "latex"} -> 1
      [] name \in {"schedule", "delay"} -> 2
      [] OTHER -> 0

\* How many positional parameters cmd.func takes after context
parameters(name) ==
    CASE name \in {"upload", "view", "reply", "unsend", "config", "latex", "summarize"} -> 1
      [] name \in {"schedule", "delay"} -> 2
      [] OTHER -> 0

\* CommandRegistry.shorthands after every registration: unsend and delay both
\* ask for "d", and delay, registered later, has it
Shorthands == {"q", "u", "b", "v", "r", "d", "c", "l", "k", "j", "S", "C", "s", "h"}

shorthands(c) ==
    CASE c = "q" -> "quit"   [] c = "u" -> "upload"    [] c = "b" -> "back"
      [] c = "v" -> "view"   [] c = "r" -> "reply"     [] c = "d" -> "delay"
      [] c = "c" -> "config" [] c = "l" -> "latex"     [] c = "k" -> "scrollup"
      [] c = "j" -> "scrolldown" [] c = "S" -> "schedule" [] c = "C" -> "cancel"
      [] c = "s" -> "summarize"  [] c = "h" -> "help"

\* str.strip()
RECURSIVE lstrip(_)
lstrip(text) ==
    IF text # <<>> /\ Head(text) = " " THEN lstrip(Tail(text)) ELSE text

RECURSIVE rstrip(_)
rstrip(text) ==
    IF text # <<>> /\ text[Len(text)] = " "
    THEN rstrip(SubSeq(text, 1, Len(text) - 1)) ELSE text

strip(text) == rstrip(lstrip(text))

\* The texts int() accepts (surrounding whitespace allowed), and their values
IntTexts == {"0", "1", "2", "5", "-1"}

is_int(text) == Len(strip(text)) = 1 /\ strip(text)[1] \in IntTexts

int(text) ==
    CASE strip(text)[1] = "0" -> 0
      [] strip(text)[1] = "1" -> 1
      [] strip(text)[1] = "2" -> 2
      [] strip(text)[1] = "5" -> 5
      [] strip(text)[1] = "-1" -> 0 - 1

\* What a command gives back: a signal string such as __REPLY__3, an ordinary
\* text to display, or an exception
Sentinel(name, has_index, index) ==
    [kind |-> "sentinel", name |-> name, has_index |-> has_index,
     index |-> index, text |-> "", handler |-> ""]

ErrorResult(text) ==
    [kind |-> "sentinel", name |-> "__ERROR__", has_index |-> FALSE,
     index |-> 0, text |-> text, handler |-> ""]

TextResult(text) ==
    [kind |-> "text", name |-> "", has_index |-> FALSE, index |-> 0, text |-> text,
     handler |-> ""]

Raised(exception) ==
    [kind |-> "raise", name |-> exception, has_index |-> FALSE, index |-> 0,
     text |-> "", handler |-> ""]

NoResult == [kind |-> "none"]

\* reply_to_message / unsend_message: the signal, with int(index) when given
with_index(name, args) ==
    IF args = <<>> THEN Sentinel(name, FALSE, 0)
    ELSE IF is_int(args[1]) THEN Sentinel(name, TRUE, int(args[1]))
    ELSE ErrorResult("Invalid message index")

\* cmd.func(context, *args), with the command whose function was called kept
\* in `handler`: more arguments than the function has parameters
\* is a TypeError; what the other commands do to the chat and the scheduler
\* is not followed here, only that they give back a text
call(name, args) ==
    LET returns ==
          IF Len(args) > parameters(name) THEN Raised("TypeError")
          ELSE CASE name = "quit" -> Sentinel("__QUIT__", FALSE, 0)
                 [] name = "back" -> Sentinel("__BACK__", FALSE, 0)
                 [] name = "scrollup" -> Sentinel("__SCROLL_UP__", FALSE, 0)
                 [] name = "scrolldown" -> Sentinel("__SCROLL_DOWN__", FALSE, 0)
                 [] name = "reply" -> with_index("__REPLY__", args)
                 [] name = "unsend" -> with_index("__UNSEND__", args)
                 [] OTHER -> TextResult("result")
    IN [returns EXCEPT !.handler = name]

\* A variant that calls the function without counting the arguments
run_command_unchecked(name, args) == call(name, args)

\* The two branches of execute that run a registered command
run_command(name, args) ==
    IF Len(args) < required_args(name)
    THEN TextResult("Error: Missing arguments")
    ELSE call(name, args)

\* CommandRegistry.execute
execute(command_str) ==
    LET p == parse_command(command_str) IN
    IF p.kind = "error" THEN TextResult(p.text)
    ELSE IF Len(p.command) = 1 /\ p.command[1] \in Commands
         THEN run_command(p.command[1], p.args)
    ELSE IF Len(p.command) = 1 /\ p.command[1] \in Shorthands
         THEN run_command(shorthands(p.command[1]), p.args)
    ELSE TextResult("Error: Command not found")

\* handle_input: where a submitted text goes, and what is passed on
dispatch_no_escape(res) ==
    IF Len(res) > 1 /\ res[1] = ":"
    THEN [to |-> "command", text |-> Tail(res)]
    ELSE [to |-> "chat", text |-> res]

dispatch(res) ==
    IF Len(res) > 1 /\ res[1] = ":"
    THEN IF res[2] = ":"
         THEN [to |-> "chat", text |-> Tail(res)]
         ELSE [to |-> "command", text |-> Tail(res)]
    ELSE [to |-> "chat", text |-> res]

\* process_message: the label a message is shown under
sender_of(author, name) ==
    IF author = "me" THEN "You"
    ELSE IF name # "" THEN name ELSE "bob"

\* ChatWindow.visible_messages_range after update(): None until a window with
\* messages has been drawn, then the messages of the first and of the last
\* line of the viewport (a message is a line of text and a spacer)
NoRange == <<>>

visible_lines_range(msgs) ==
    <<Max(0, messages_lines(msgs) - Height - scroll_offset),
      Max(0, messages_lines(msgs) - 1 - scroll_offset)>>

visible_messages_range(msgs) ==
    IF msgs = <<>> THEN NoRange
    ELSE <<visible_lines_range(msgs)[1] \div 2, visible_lines_range(msgs)[2] \div 2>>

\* What one pass of the input loop leaves behind
Outcome(sig, md, sel, sid, skip, st, del) ==
    /\ signal' = sig
    /\ mode' = md
    /\ selection' = sel
    /\ selected_message_id' = sid
    /\ skip_message_selection' = skip
    /\ status' = st
    /\ deleted' = del
    /\ awaiting' = IF ~skip /\ md \in {"REPLY", "UNSEND"} THEN "selection" ELSE "text"

\* The default interactive selection of __REPLY__ and __UNSEND__
clamp_selection(sig_mode) ==
    LET vmr == visible_messages_range(messages) IN
    IF vmr = NoRange
    THEN Outcome("TypeError", sig_mode, selection, selected_message_id,
                 skip_message_selection, "command", deleted)
    ELSE Outcome("CONTINUE", sig_mode, Min(Max(selection, vmr[1]), vmr[2]),
                 selected_message_id, skip_message_selection, "none", deleted)

\* A variant that reports the invalid index without leaving the command mode
invalid_index_in_command ==
    Outcome("CONTINUE", "COMMAND", selection, selected_message_id,
            skip_message_selection, "Invalid message index", deleted)

invalid_index ==
    Outcome("CONTINUE", "CHAT", selection, selected_message_id,
            skip_message_selection, "Invalid message index", deleted)

\* ChatInterface._handle_command; ok is what the provider answers to a delete
handle_command(command) ==
    LET r == execute(command)
        n == Len(messages)
    IN
    /\ parsed' = parse_command(command)
    /\ command_result' = r
    /\ reply_to_id' = NotSent
    /\ CASE r.kind = "raise" ->
              Outcome(r.name, "COMMAND", selection, selected_message_id,
                      skip_message_selection, "command", deleted)
         [] r.kind = "text" ->
              Outcome("CONTINUE", "CHAT", selection, selected_message_id,
                      skip_message_selection, r.text, deleted)
         [] r.kind = "sentinel" /\ r.name = "__QUIT__" ->
              Outcome("QUIT", "COMMAND", selection, selected_message_id,
                      skip_message_selection, "command", deleted)
         [] r.kind = "sentinel" /\ r.name = "__BACK__" ->
              Outcome("BACK", "COMMAND", selection, selected_message_id,
                      skip_message_selection, "command", deleted)
         [] r.kind = "sentinel" /\ r.name \in {"__SCROLL_UP__", "__SCROLL_DOWN__"} ->
              Outcome("CONTINUE", "CHAT", selection, selected_message_id,
                      skip_message_selection, "none", deleted)
         [] r.kind = "sentinel" /\ r.name = "__REPLY__" ->
              IF r.has_index
              THEN IF 0 <= r.index /\ r.index < n
                   THEN Outcome("CONTINUE", "REPLY", n - 1 - r.index,
                                messages[n - r.index].id, TRUE, "none", deleted)
                   ELSE invalid_index
              ELSE clamp_selection("REPLY")
         [] r.kind = "sentinel" /\ r.name = "__UNSEND__" ->
              IF r.has_index
              THEN IF 0 <= r.index /\ r.index < n
                   THEN IF messages[n - r.index].sender # "You"
                        THEN Outcome("CONTINUE", "CHAT", selection, selected_message_id,
                                     skip_message_selection,
                                     "You can only unsend your own messages", deleted)
                        ELSE \E ok \in BOOLEAN :
                               Outcome("CONTINUE", "CHAT", selection, selected_message_id,
                                       skip_message_selection,
                                       IF ok THEN "Unsending message..."
                                       ELSE "We're sorry, we couldn't unsend the message",
                                       Append(deleted, messages[n - r.index].id))
                   ELSE invalid_index
              ELSE clamp_selection("UNSEND")
         [] r.kind = "sentinel" /\ r.name = "__ERROR__" ->
              Outcome("CONTINUE", "CHAT", selection, selected_message_id,
                      skip_message_selection, r.text, deleted)

\* ChatInterface._handle_chat_message, as far as the input loop's state goes
\* (the optimistic send itself is send_text)
chat_message(message) ==
    /\ parsed' = NotParsed
    /\ command_result' = NoResult
    /\ IF selected_message_id # 0 /\ mode = "REPLY"
       THEN /\ reply_to_id' = SentWith(selected_message_id)
            /\ Outcome("CONTINUE", "CHAT", selection, 0, FALSE, "Sending...", deleted)
       ELSE /\ reply_to_id' = SentWith(0)
            /\ Outcome("CONTINUE", mode, selection, selected_message_id,
                       skip_message_selection, "Sending...", deleted)

\* handle_input, once Enter gave the text res
handle_input(res) ==
    /\ signal \in {"none", "CONTINUE"}
    /\ awaiting = "text"
    /\ Len(deleted) < MaxDeletes
    /\ result' = res
    /\ route' = dispatch(res)
    /\ IF dispatch(res).to = "command"
       THEN handle_command(dispatch(res).text)
       ELSE chat_message(dispatch(res).text)
    /\ UNCHANGED <<user_id, full_name>>

\* _handle_reply_input / _handle_unsend_input: KEY_UP or "k"
select_up ==
    /\ signal = "CONTINUE"
    /\ awaiting = "selection"
    /\ selection > visible_messages_range(messages)[1]
    /\ selection' = selection - 1
    /\ UNCHANGED <<mode, inputVars>>

\* KEY_DOWN or "j"
select_down ==
    /\ signal = "CONTINUE"
    /\ awaiting = "selection"
    /\ selection < visible_messages_range(messages)[2]
    /\ selection' = selection + 1
    /\ UNCHANGED <<mode, inputVars>>

\* ESC
select_escape ==
    /\ signal = "CONTINUE"
    /\ awaiting = "selection"
    /\ mode' = "CHAT"
    /\ selected_message_id' = 0
    /\ awaiting' = "text"
    /\ status' = "none"
    /\ UNCHANGED <<selection, result, route, parsed, command_result, signal,
                   skip_message_selection, user_id, full_name, deleted, reply_to_id>>

\* Enter in _handle_reply_input
reply_enter ==
    /\ signal = "CONTINUE"
    /\ awaiting = "selection"
    /\ mode = "REPLY"
    /\ IF selection + 1 <= Len(messages)
       THEN /\ selected_message_id' = messages[selection + 1].id
            /\ signal' = signal
       ELSE /\ selected_message_id' = selected_message_id
            /\ signal' = "IndexError"
    /\ awaiting' = "text"
    /\ UNCHANGED <<mode, selection, result, route, parsed, command_result,
                   status, skip_message_selection, user_id, full_name, deleted,
                   reply_to_id>>

\* Enter in _handle_unsend_input; ok is what the provider answers to a delete
unsend_enter(ok) ==
    LET target == messages[selection + 1] IN
    /\ signal = "CONTINUE"
    /\ awaiting = "selection"
    /\ mode = "UNSEND"
    /\ Len(deleted) < MaxDeletes
    /\ IF selection + 1 > Len(messages)
       THEN /\ signal' = "IndexError"
            /\ awaiting' = "text"
            /\ UNCHANGED <<mode, status, deleted>>
       ELSE /\ signal' = signal
            /\ IF target.sender # "You"
               THEN /\ status' = "You can only unsend your own messages"
                    /\ UNCHANGED <<mode, awaiting, deleted>>
               ELSE /\ deleted' = Append(deleted, target.id)
                    /\ IF ok
                       THEN /\ mode' = "CHAT"
                            /\ awaiting' = "text"
                            /\ status' = "none"
                       ELSE /\ status' = "We're sorry, we couldn't unsend the message"
                            /\ UNCHANGED <<mode, awaiting>>
    /\ UNCHANGED <<selection, result, route, parsed, command_result,
                   skip_message_selection, selected_message_id, user_id, full_name,
                   reply_to_id>>

\* The texts submitted: every short text over ":", " " and a letter that is
\* not blank, and commands with up to MaxArgs arguments
InputChars == {":", " ", "x"}

Texts ==
    {t \in UNION {[1..n -> InputChars] : n \in 1..MaxText} : strip(t) # <<>>}

CommandNames == {"quit", "reply", "unsend", "schedule", "bogus"}

ArgTexts == {"0", "2", "x"}

RECURSIVE spaced(_)
spaced(args) ==
    IF args = <<>> THEN <<>> ELSE <<" ", Head(args)>> \o spaced(Tail(args))

\* Argument lists: the first argument varies, the further ones only count
ArgLists ==
    {<<>>} \cup {<<a>> \o [i \in 1..n |-> "x"] : a \in ArgTexts, n \in 0..(MaxArgs - 1)}

CommandLines ==
    {<<":", c>> \o spaced(a) : c \in CommandNames, a \in ArgLists}

Submissions == Texts \cup CommandLines

\* Who wrote the messages of the history, oldest first
Histories ==
    {h \in {<<>>, <<"bob">>, <<"me", "bob", "me">>} : Len(h) <= MaxHistory}
FullNames == {"Bob", "You"}

\* A chat opened on a short history: who wrote each message, and what the
\* other participant calls themselves
InputInit ==
    \E authors \in Histories, name \in FullNames :
        /\ user_id = authors
        /\ full_name = name
        /\ messages = [i \in 1..Len(authors) |->
                          Msg(i, sender_of(authors[i], name), <<"yo">>, FALSE)]

InputStart ==
    /\ SchedIdle /\ ChatRestIdle
    /\ SingletonIdle /\ StoreIdle /\ EditorIdle
    /\ WindowIdle /\ LayoutIdle /\ InputRestIdle
    /\ InputInit

InputNext ==
    \/ \E res \in Submissions :
          handle_input(res) /\ UNCHANGED <<backVars, chatVars, layoutVars>>
    \/ select_up /\ UNCHANGED <<backVars, chatVars, layoutVars>>
    \/ select_down /\ UNCHANGED <<backVars, chatVars, layoutVars>>
    \/ select_escape /\ UNCHANGED <<backVars, chatVars, layoutVars>>
    \/ reply_enter /\ UNCHANGED <<backVars, chatVars, layoutVars>>
    \/ \E ok \in BOOLEAN :
          unsend_enter(ok) /\ UNCHANGED <<backVars, chatVars, layoutVars>>

InputSpec == InputStart /\ [][InputNext]_vars

\* C14: a submission that begins with "::" goes to the chat with its first
\* colon dropped and is never handed to the command registry; a submission
\* that begins with one ":" followed by something else is handed to the
\* command registry, without its colon, and is never sent to the chat.
C14_EscapeAndCommand ==
    (Len(result) >= 2 /\ result[1] = ":") =>
        IF result[2] = ":"
        THEN /\ route = [to |-> "chat", text |-> Tail(result)]
             /\ parsed = NotParsed
             /\ command_result = NoResult
        ELSE /\ route = [to |-> "command", text |-> Tail(result)]
             /\ parsed = parse_command(Tail(result))
             /\ command_result # NoResult

\* "::x" was submitted and went to the chat as ":x"
C14_Witness ==
    /\ result = <<":", ":", "x">>
    /\ route = [to |-> "chat", text |-> <<":", "x">>]
    /\ signal = "CONTINUE"

\* C15: the provider's delete is only ever invoked for a message that the
\* local user wrote.
C15_DeleteOnlyOwn ==
    \A i \in 1..Len(deleted) : user_id[deleted[i]] = "me"

\* C19: whatever command text is submitted, the input loop goes on, and it
\* ends only by the signal of a quit or back command; no exception ends it.
C19_InputErrorsAreNotFatal ==
    \/ signal \in {"none", "CONTINUE"}
    \/ /\ signal \in {"QUIT", "BACK"}
       /\ command_result.kind = "sentinel"
       /\ command_result.name \in {"__QUIT__", "__BACK__"}

\* C23: in the reply and unsend selection modes the selection is within the
\* visible message range [lo, hi], hence an index of the message list, however
\* the mode was entered and after every navigation key.
C23_SelectionIsVisible ==
    mode \in {"REPLY", "UNSEND"} =>
        /\ visible_messages_range(messages) # NoRange
        /\ visible_messages_range(messages)[1] <= selection
        /\ selection <= visible_messages_range(messages)[2]
        /\ selection < Len(messages)

\* The last submission was a command and _handle_command returned CONTINUE
returned_for_input ==
    route.to = "command" /\ signal = "CONTINUE" /\ command_result.kind # "none"

C39_SkipOnlyInReply ==
    signal = "CONTINUE" =>
        /\ mode # "REPLY" => ~skip_message_selection
        /\ (/\ route.to = "command"
            /\ command_result.kind = "sentinel"
            /\ command_result.name = "__REPLY__"
            /\ ~command_result.has_index) => ~skip_message_selection

\* A text goes to the chat
text_submitted ==
    \E res \in Submissions : dispatch(res).to = "chat" /\ handle_input(res)

\* C31: Enter in the reply selection stores the selected message's id in
\* selected_message_id; while an id stored that way is pending, the next text
\* that goes to the chat is sent with it as reply_to_id, after which the id is
\* cleared and the mode is CHAT; a text sent with no id pending is no reply.
C31_ReplyTargetUsedOnce ==
    [][/\ reply_enter =>
            /\ messages[selection + 1].id # 0
            /\ selected_message_id' = messages[selection + 1].id
            /\ ~skip_message_selection'
       /\ (text_submitted /\ selected_message_id # 0 /\ ~skip_message_selection) =>
            /\ reply_to_id' = SentWith(selected_message_id)
            /\ selected_message_id' = 0
            /\ mode' = "CHAT"
       /\ (text_submitted /\ selected_message_id = 0) =>
            reply_to_id' = SentWith(0)]_vars

(* ------- the selection while the background threads replace the list ------- *)
\* The commands that start the interactive selection
SelectCommands == {<<":", "reply">>, <<":", "unsend">>}

\* The texts sent meanwhile: what they say plays no part in the selection
SelectTexts == {<<"hi">>}

\* The input thread and the background threads of one chat: texts are sent,
\* the selection is started, moved and confirmed, the list is replaced
SelectNext ==
    \/ \E message \in SelectTexts :
          /\ signal \in {"none", "CONTINUE"}
          /\ awaiting = "text"
          /\ handle_chat_message(message) /\ UNCHANGED offChat
    \/ \E k \in 1..MaxSubmits, outcome \in SendOutcomes : send_text(k, outcome) /\ UNCHANGED offChat
    \/ \E k \in 1..MaxSubmits : SenderLock(k) /\ UNCHANGED offChat
    \/ \E k \in 1..MaxSubmits, outcome \in SendOutcomes : SenderFinishOk(k, outcome) /\ UNCHANGED offChat
    \/ \E k \in 1..MaxSubmits : SenderFinishFail(k) /\ UNCHANGED offChat
    \/ RefreshFetch /\ UNCHANGED offChat
    \/ RefreshApply /\ UNCHANGED offChat
    \/ \E res \in SelectCommands :
          handle_input(res) /\ UNCHANGED <<backVars, chatVars, layoutVars>>
    \/ select_up /\ UNCHANGED <<backVars, chatVars, layoutVars>>
    \/ select_down /\ UNCHANGED <<backVars, chatVars, layoutVars>>
    \/ select_escape /\ UNCHANGED <<backVars, chatVars, layoutVars>>
    \/ reply_enter /\ UNCHANGED <<backVars, chatVars, layoutVars>>
    \/ \E ok \in BOOLEAN :
          unsend_enter(ok) /\ UNCHANGED <<backVars, chatVars, layoutVars>>

SelectSpec == ChatStart /\ [][SelectNext]_vars

\* C38: while the selection waits for a key, a replacement of the list leaves
\* the selection index inside the list and on the same message id.
C38_SelectionKeepsItsMessage ==
    [][(awaiting = "selection" /\ messages' # messages /\ selection < Len(messages)) =>
         /\ selection < Len(messages')
         /\ messages'[selection + 1].id = messages[selection + 1].id]_vars

(* ---------- the registry applied to command lines of every name -------- *)
\* The shorthand each command is registered with, in chat_commands.py
shorthand_of(name) ==
    CASE name = "quit" -> "q"      [] name = "upload" -> "u"   [] name = "back" -> "b"
      [] name = "view" -> "v"      [] name = "reply" -> "r"    [] name = "unsend" -> "d"
      [] name = "config" -> "c"    [] name = "latex" -> "l"    [] name = "scrollup" -> "k"
      [] name = "scrolldown" -> "j" [] name = "schedule" -> "S" [] name = "cancel" -> "C"
      [] name = "delay" -> "d"     [] name = "summarize" -> "s" [] name = "help" -> "h"

RegistryNames == Commands \cup Shorthands \cup {"bogus"}

RegistryLines ==
    {<<c>> \o spaced(a) :
        c \in RegistryNames, a \in UNION {[1..n -> {"0", "x"}] : n \in 0..MaxArgs}}

\* cmd_registry.execute(command, ...) on a fresh interface
registry_execute(command_str) ==
    /\ command_result = NoResult
    /\ result' = command_str
    /\ parsed' = parse_command(command_str)
    /\ command_result' = execute(command_str)
    /\ UNCHANGED <<route, signal, awaiting, status, skip_message_selection,
                   selected_message_id, user_id, full_name, deleted, reply_to_id>>

RegistryNext ==
    \E command_str \in RegistryLines :
        registry_execute(command_str)
            /\ UNCHANGED <<backVars, chatVars, windowVars, layoutVars>>

RegistryStart == ExtraIdle /\ CoreIdle

RegistrySpec == RegistryStart /\ [][RegistryNext]_vars

\* The first token of the executed line
first_token == parsed.command[1]

\* C32: a first token that is neither a registered name nor a registered
\* shorthand gives the command-not-found error, a known command with fewer
\* arguments than it requires gives the missing-arguments usage error, and in
\* both cases no command function is called.
C32_UnknownAndMissing ==
    command_result # NoResult =>
        LET known == first_token \in Commands \cup Shorthands
            name == IF first_token \in Commands THEN first_token
                    ELSE shorthands(first_token)
        IN /\ ~known => /\ command_result.text = "Error: Command not found"
                         /\ command_result.handler = ""
           /\ (known /\ Len(parsed.args) < required_args(name)) =>
                  /\ command_result.text = "Error: Missing arguments"
                  /\ command_result.handler = ""

\* schedule was given its time but no message, and was not run
C32_Witness ==
    /\ command_result # NoResult
    /\ first_token = "schedule"
    /\ Len(parsed.args) = 1
    /\ command_result.text = "Error: Missing arguments"

\* C34: for every registered command c with shorthand s, a line whose first
\* token is s, with as many arguments as c takes, calls the function of c.
C34_ShorthandReachesItsCommand ==
    command_result # NoResult =>
        \A c \in Commands :
            (/\ first_token = shorthand_of(c)
             /\ Len(parsed.args) >= required_args(c)
             /\ Len(parsed.args) <= parameters(c)) => command_result.handler = c

(***************************************************************************)
(* Message layout: ChatWindow._build_message_lines.  Texts are sequences   *)
(* of single characters.                                                   *)
(***************************************************************************)

MaxBody == 3
MaxScroll == 1

\* str.split(): the words between runs of whitespace
RECURSIVE words_from(_, _)
words_from(text, word) ==
    IF text = <<>>
    THEN IF word = <<>> THEN <<>> ELSE <<word>>
    ELSE IF Head(text) \in {" ", "\n"}
         THEN (IF word = <<>> THEN <<>> ELSE <<word>>) \o words_from(Tail(text), <<>>)
         ELSE words_from(Tail(text), Append(word, Head(text)))

str_split(text) == words_from(text, <<>>)

\* " ".join(words)
RECURSIVE str_join(_)
str_join(words) ==
    IF words = <<>> THEN <<>>
    ELSE IF Len(words) = 1 THEN Head(words)
         ELSE Head(words) \o <<" ">> \o str_join(Tail(words))

\* " " * n
spaces(n) == [i \in 1..n |-> " "]

\* text[:k], k negative included
slice_to(text, k) ==
    IF k >= 0 THEN SubSeq(text, 1, Min(k, Len(text)))
    ELSE SubSeq(text, 1, Max(Len(text) + k, 0))

\* str.replace("\n", " ")
replace_newlines(text) ==
    [i \in 1..Len(text) |-> IF text[i] = "\n" THEN " " ELSE text[i]]

\* The status suffixes of pending and failed messages
sending_suffix == <<" ", "(", "s", "e", "n", "d", "i", "n", "g", ".", ".", ".", ")">>
failed_suffix == <<" ", "[", "F", "A", "I", "L", "E", "D", " ", ":", "(", " ", " ", "]">>

\* content_text, as handed to split()
content_text(msg) ==
    msg.content \o (IF msg.pending THEN sending_suffix ELSE <<>>)
                \o (IF msg.failed THEN failed_suffix ELSE <<>>)

\* One entry of lines_buffer
LineInfo(msg_idx, content, selected, color_idx, sender_width, sender_text, dimmed) ==
    [msg_idx |-> msg_idx, content |-> content, is_selected |-> selected,
     color_idx |-> color_idx, sender_width |-> sender_width,
     sender_text |-> sender_text, is_dimmed |-> dimmed]

\* flush_line: what the closure appends, as (text, first_line) pairs
flush_line(line_buffer, first_line) ==
    IF line_buffer = <<>> THEN <<>>
    ELSE <<[text |-> str_join(line_buffer), first |-> first_line]>>

\* A variant of the fill that loses the word that did not fit
RECURSIVE fill_losing(_, _, _, _, _)
fill_losing(words, line_buffer, current_width, first_line, content_width) ==
    IF words = <<>> THEN flush_line(line_buffer, first_line)
    ELSE LET word == Head(words)
             space_needed == IF line_buffer # <<>> THEN 1 ELSE 0
         IN IF current_width + Len(word) + space_needed <= content_width
            THEN fill_losing(Tail(words), Append(line_buffer, word),
                             current_width + Len(word) + space_needed, first_line,
                             content_width)
            ELSE flush_line(line_buffer, first_line)
                     \o fill_losing(Tail(words), <<>>, 0, FALSE, content_width)

\* A variant of the fill that does not count the separating space
RECURSIVE fill_unspaced(_, _, _, _, _)
fill_unspaced(words, line_buffer, current_width, first_line, content_width) ==
    IF words = <<>> THEN flush_line(line_buffer, first_line)
    ELSE LET word == Head(words)
         IN IF current_width + Len(word) <= content_width
            THEN fill_unspaced(Tail(words), Append(line_buffer, word),
                               current_width + Len(word), first_line, content_width)
            ELSE flush_line(line_buffer, first_line)
                     \o fill_unspaced(Tail(words), <<word>>, Len(word), FALSE,
                                      content_width)

\* `for word in words:` and the final flush
RECURSIVE fill(_, _, _, _, _)
fill(words, line_buffer, current_width, first_line, content_width) ==
    IF words = <<>> THEN flush_line(line_buffer, first_line)
    ELSE LET word == Head(words)
             space_needed == IF line_buffer # <<>> THEN 1 ELSE 0
         IN IF current_width + Len(word) + space_needed <= content_width
            THEN fill(Tail(words), Append(line_buffer, word),
                      current_width + Len(word) + space_needed, first_line,
                      content_width)
            ELSE flush_line(line_buffer, first_line)
                     \o fill(Tail(words), <<word>>, Len(word), FALSE, content_width)

\* A variant in which the selection is counted from the scroll position
is_selected_scrolled(msg_idx, sel, md) ==
    msg_idx = sel + window_scroll /\ md \in {"REPLY", "UNSEND"}

\* is_selected
is_selected(msg_idx, sel, md) ==
    msg_idx = sel /\ md \in {"REPLY", "UNSEND"}

\* color_idx: hash(sender) % 3 is fixed per sender for the life of the process
color_index(sender, col, seed) ==
    IF col THEN seed[sender] + 4 ELSE 0

NoReply == [sender |-> <<>>, content |-> <<>>]

\* The reply annotation
reply_line(msg_idx, msg, w) ==
    LET sender_width == Len(msg.sender) + 2
        reply_sender == msg.reply_to.sender \o <<":", " ">>
        reply_indent == spaces(sender_width) \o <<"|", " ">>
        max_reply_content == w - Len(reply_sender) - Len(reply_indent) - 1
        reply_content == replace_newlines(msg.reply_to.content)
        shown == IF Len(reply_content) > max_reply_content
                 THEN slice_to(reply_content, max_reply_content - 3) \o <<".", ".", ".">>
                 ELSE reply_content
    IN LineInfo(msg_idx, reply_indent \o reply_sender \o shown, FALSE, 0, 0, <<>>, TRUE)

\* The reaction annotation: "{reaction}x{count}" for each reaction
RECURSIVE reaction_list(_)
reaction_list(reactions) ==
    IF reactions = <<>> THEN <<>>
    ELSE <<<<Head(reactions).reaction, "x", Head(reactions).count>>>>
             \o reaction_list(Tail(reactions))

reaction_line(msg_idx, msg) ==
    LineInfo(msg_idx, spaces(Len(msg.sender) + 2) \o str_join(reaction_list(msg.reactions)),
             FALSE, 0, 0, <<>>, TRUE)

\* The lines of one message (msg_idx counts from 0)
build_message(msg_idx, msg, w, lay, col, sel, md, seed) ==
    LET sender_text == msg.sender \o <<":", " ">>
        sender_width == Len(sender_text)
        content_width == w - sender_width - 1
        wrapped == fill(str_split(content_text(msg)), <<>>, 0, TRUE, content_width)
    IN [i \in 1..Len(wrapped) |->
            LineInfo(msg_idx, wrapped[i].text, is_selected(msg_idx, sel, md),
                     color_index(msg.sender, col, seed), sender_width,
                     IF wrapped[i].first THEN sender_text ELSE spaces(sender_width),
                     FALSE)]
       \o (IF msg.reply_to # NoReply THEN <<reply_line(msg_idx, msg, w)>> ELSE <<>>)
       \o (IF msg.reactions # <<>> THEN <<reaction_line(msg_idx, msg)>> ELSE <<>>)
       \o (IF lay # "compact"
           THEN <<LineInfo(msg_idx, <<>>, FALSE, 0, 0, <<>>, FALSE)>> ELSE <<>>)

\* ChatWindow._build_message_lines
RECURSIVE build_from(_, _, _, _, _, _, _, _)
build_from(msg_idx, msgs, w, lay, col, sel, md, seed) ==
    IF msg_idx >= Len(msgs) THEN <<>>
    ELSE build_message(msg_idx, msgs[msg_idx + 1], w, lay, col, sel, md, seed)
             \o build_from(msg_idx + 1, msgs, w, lay, col, sel, md, seed)

build_message_lines(msgs, w, lay, col, sel, md, seed) ==
    build_from(0, msgs, w, lay, col, sel, md, seed)

\* ChatWindow.update, as far as the lines go
update(md, sel, off) ==
    /\ mode' = md
    /\ selection' = sel
    /\ window_scroll' = off
    /\ lines_buffer' = build_message_lines(messages, width, layout, colors, sel, md, hashseed)
    /\ UNCHANGED <<width, layout, colors, hashseed>>

\* A redraw with nothing changed (the refresh thread, a finished send)
redraw == update(mode, selection, window_scroll)

\* set_mode followed by chat_window.update()
set_mode(md) ==
    /\ md # mode
    /\ update(md, selection, window_scroll)

\* The selection moved in _handle_reply_input / _handle_unsend_input
move_selection(sel) ==
    /\ mode \in {"REPLY", "UNSEND"}
    /\ sel # selection
    /\ update(mode, sel, window_scroll)

\* The window scrolled
scroll_window(off) ==
    /\ off # window_scroll
    /\ update(mode, selection, off)

Senders == {<<"Y", "o", "u">>, <<"B">>}

Bodies ==
    UNION {[1..n -> {"a", " "}] : n \in 0..MaxBody}
    \cup {<<"a", "\n", "a">>, <<"a", "a", " ", "a", "a", " ", "a">>}

LayoutMsg(sender, content, pending, failed, reply_to, reactions) ==
    [sender |-> sender, content |-> content, pending |-> pending, failed |-> failed,
     reply_to |-> reply_to, reactions |-> reactions]

\* Messages as the provider gives them, and as the optimistic send makes them
PlainMessages ==
    {LayoutMsg(sender, content, FALSE, FALSE, NoReply, <<>>) :
        sender \in Senders, content \in Bodies}

OptimisticMessages ==
    {LayoutMsg(<<"Y", "o", "u">>, content, flags[1], flags[2], NoReply, <<>>) :
        content \in Bodies, flags \in {<<TRUE, FALSE>>, <<FALSE, TRUE>>}}

AnnotatedMessages ==
    {LayoutMsg(<<"B">>, <<"a">>,  FALSE, FALSE,
               [sender |-> <<"B">>, content |-> content], reactions) :
        content \in {<<"a", "\n", "a">>, <<"a", "a", "a", "a", "a", "a">>},
        reactions \in {<<>>, <<[reaction |-> "h", count |-> "2"],
                               [reaction |-> "k", count |-> "1"]>>}}

LayoutMessages == PlainMessages \cup OptimisticMessages \cup AnnotatedMessages

Widths == {7, 12}

\* A window opened on one or two messages and drawn once by run()
LayoutInit ==
    \E first \in LayoutMessages, more \in BOOLEAN, w \in Widths,
       lay \in {"default", "compact"}, col \in BOOLEAN, seed \in [Senders -> 0..2] :
        /\ messages = IF more
                      THEN <<first, LayoutMsg(<<"B">>, <<"a">>, FALSE, FALSE, NoReply, <<>>)>>
                      ELSE <<first>>
        /\ width = w
        /\ layout = lay
        /\ colors = col
        /\ hashseed = seed
        /\ window_scroll = 0
        /\ lines_buffer = build_message_lines(messages, w, lay, col, 0, "CHAT", seed)

LayoutStart ==
    /\ SchedIdle /\ ChatRestIdle
    /\ SingletonIdle /\ StoreIdle /\ EditorIdle
    /\ WindowIdle /\ InputIdle
    /\ LayoutInit

LayoutNext ==
    \/ redraw /\ UNCHANGED <<backVars, chatVars, inputVars>>
    \/ \E md \in {"CHAT", "REPLY", "UNSEND"} :
          set_mode(md) /\ UNCHANGED <<backVars, chatVars, inputVars>>
    \/ \E sel \in 0..(Len(messages) - 1) :
          move_selection(sel) /\ UNCHANGED <<backVars, chatVars, inputVars>>
    \/ \E off \in 0..MaxScroll :
          scroll_window(off) /\ UNCHANGED <<backVars, chatVars, inputVars>>

LayoutSpec == LayoutStart /\ [][LayoutNext]_vars

\* The texts of the body lines of message msg_idx: the undimmed lines that
\* carry a sender prefix, blank or not
RECURSIVE body_texts(_, _)
body_texts(lines, msg_idx) ==
    IF lines = <<>> THEN <<>>
    ELSE (IF Head(lines).msg_idx = msg_idx /\ Head(lines).sender_width > 0
          THEN <<Head(lines).content>> ELSE <<>>)
             \o body_texts(Tail(lines), msg_idx)

C17_JoinGivesBody ==
    \A i \in 1..Len(messages) :
        str_join(body_texts(lines_buffer, i - 1)) = messages[i].content

\* C17: the body lines of a message, joined with single spaces, are the
\* words of the message's body followed by the words of its status suffix
\* when it is pending or failed, with single spaces between them.
C17_JoinGivesWords ==
    \A i \in 1..Len(messages) :
        str_join(body_texts(lines_buffer, i - 1))
            = str_join(str_split(content_text(messages[i])))

\* After a redraw in reply mode: a pending message whose body and suffix
\* took three lines or more
C17_Witness ==
    \E i \in 1..Len(messages) :
        /\ mode = "REPLY"
        /\ messages[i].pending
        /\ Len(str_split(messages[i].content)) >= 2
        /\ Len(body_texts(lines_buffer, i - 1)) >= 3


\* The places in the line list of the lines of message msg_idx
lines_of(lines, msg_idx) == {i \in 1..Len(lines) : lines[i].msg_idx = msg_idx}

\* C28: the lines of one message are contiguous and the messages come in
\* list order; exactly one line of each message, its first, carries the
\* sender prefix, and every other body line carries a blank prefix of the
\* same width.
C28_OneSenderLinePerMessage ==
    /\ \A i, j \in 1..Len(lines_buffer) :
           i <= j => lines_buffer[i].msg_idx <= lines_buffer[j].msg_idx
    /\ \A m \in 1..Len(messages) :
           LET own == lines_of(lines_buffer, m - 1)
               sender_text == messages[m].sender \o <<":", " ">>
               named == {i \in own : lines_buffer[i].sender_text = sender_text}
           IN /\ Cardinality(named) = 1
              /\ \A i \in named : \A j \in own : i <= j
              /\ \A i \in own \ named :
                     lines_buffer[i].sender_width > 0 =>
                         lines_buffer[i].sender_text = spaces(Len(sender_text))


\* content_width of the message at place m of the list
content_width(m) == width - (Len(messages[m].sender) + 2) - 1

\* C29: the body is filled greedily to W = width - sender prefix width - 1:
\* every body line of two or more words is at most W long, and the first
\* word of every following line would not have fit, after one space, on the
\* line before it.
C29_GreedyFill ==
    \A m \in 1..Len(messages) :
        LET body == body_texts(lines_buffer, m - 1) IN
        /\ \A i \in 1..Len(body) :
               Len(str_split(body[i])) >= 2 => Len(body[i]) <= content_width(m)
        /\ \A i \in 1..(Len(body) - 1) :
               Len(body[i]) + 1 + Len(str_split(body[i + 1])[1]) > content_width(m)

\* After a redraw in reply mode: a body line of two words followed by a
\* line that starts with the word that did not fit
C29_Witness ==
    /\ mode = "REPLY"
    /\ \E m \in 1..Len(messages) :
           LET body == body_texts(lines_buffer, m - 1) IN
           \E i \in 1..(Len(body) - 1) :
               /\ Len(str_split(body[i])) >= 2
               /\ Len(body[i]) + 1 + Len(body[i + 1]) > content_width(m)
               /\ Len(body[i]) < content_width(m)

====
